---------------------------- MODULE Spec2Model ----------------------------
(***************************************************************************)
(* A model of the runtime-caching core of sw-helpers:                      *)
(*   - RequestWrapper (packages/sw-runtime-caching/src/lib/                *)
(*     request-wrapper.js): constructor, fetch, match, fetchAndCache;      *)
(*   - the cache-expiration Plugin (sw-cache-expiration): cacheDidUpdate,  *)
(*     updateTimestamp, expireEntries, findOldEntries, findExtraEntries,   *)
(*     deleteFromCacheAndIDB.                                              *)
(* The host is single threaded: every action below is the code that runs   *)
(* between two suspension points (an I/O await), so the interleavings of   *)
(* the actions are the interleavings the event loop can produce.           *)
(***************************************************************************)
EXTENDS Integers, Sequences, FiniteSets, TLC

(***************************************************************************)
(* Bounds of the model.                                                    *)
(***************************************************************************)
\* longest plugin list handed to the RequestWrapper constructor in SpecCtor
MaxPlugins == 3
\* fetchAndCache calls per behaviour of Spec (wrapper with user plugins)
MaxCalls == 2
\* fetchAndCache calls per behaviour of SpecExp (wrapper + expiration plugin)
MaxStores == 3
\* the clock reads 0 or s * MsPerSecond + e, s in 1..MaxSeconds, e in 0..MaxExtraMs
MaxSeconds == 1
MaxExtraMs == 1
\* fetchAndCache chains (call plus the expiration run it starts) in flight
\* at once in SpecExp
MaxActive == 2
\* largest maxEntries an expiration plugin is configured with
MaxEntriesBound == 2
\* RequestWrapper.match / isResponseFresh calls per behaviour
MaxMatches == 2
\* largest number given as an option to the Plugin constructor in SpecPlugin
MaxOption == 3
\* fetchAndCache calls per behaviour of SpecMatch
MaxMatchStores == 2
\* getCache calls of the application on one wrapper
MaxGetCache == 4

\* findOldEntries: now - (this.maxAgeSeconds * 1000)
MsPerSecond == 1000

Max(a, b) == IF a >= b THEN a ELSE b

(***************************************************************************)
(* Data: requests, responses, plugins.                                     *)
(***************************************************************************)
\* A Request is modelled by its URL, which is also its cache fingerprint.
Urls == {"a", "b", "c"}
NoKey == "<none>"

\* `undefined` / `null` where a Response is expected
\* The Date header of a Response: absent, not parseable as a date, or a date
NoDateHeader == [kind |-> "absent", time |-> 0]
InvalidDateHeader == [kind |-> "invalid", time |-> 0]
DateHeader(t) == [kind |-> "date", time |-> t]

NoResponse ==
    [status |-> -1, type |-> "none", url |-> "", id |-> 0,
     date |-> NoDateHeader]
NoRecord == -1

\* Response objects: the object the network call resolved with has copy 0,
\* response.clone() makes a new object with the same content
NoObject == [of |-> 0, copy |-> 0]
ResponseObject(response) == [of |-> response.id, copy |-> 0]
CloneSame(object) == object
Clone(object) == [object EXCEPT !.copy = @ + 1]

\* response.ok: the status is in the range 200-299
OkLoose(response) == response.status >= 200
Ok(response) == response.status >= 200 /\ response.status <= 299

\* The Response the network produces for a request to `url`: an opaque
\* response has status 0, an empty url and no readable header.
NetResponse(status, type, url, id, date) ==
    [status |-> IF type = "opaque" THEN 0 ELSE status,
     type |-> type,
     url |-> IF type = "opaque" THEN "" ELSE url,
     id |-> id,
     date |-> IF type = "opaque" THEN NoDateHeader ELSE date]

\* The lifecycle callbacks a RequestWrapper looks for on each plugin.
HookNames ==
    {"cacheDidUpdate", "cacheWillMatch", "cacheWillUpdate", "fetchDidFail",
     "requestWillFetch"}

\* The plugin objects of the model, each a bag of callbacks:
\*   rwA, rwB  user plugins rewriting the outgoing request,
\*   upd       a user plugin deciding cacheability (statuses 0 and 200),
\*   mat       a user plugin hiding non-2xx cached responses from match,
\*   obs, log  user plugins observing cache updates,
\*   fdf, rep  user plugins observing network failures,
\*   thr       a user plugin whose fetchDidFail callback throws,
\*   thu       a user plugin whose cacheDidUpdate callback throws,
\*   exp       the cache-expiration Plugin.
PluginPool ==
    {"rwA", "rwB", "upd", "mat", "obs", "log", "fdf", "rep", "thr", "thu",
     "exp"}

\* User plugins whose transform callbacks fail:
\*   rwx       requestWillFetch fails,
\*   thm       cacheWillMatch throws,
\*   thw       cacheWillUpdate throws.
FailingPlugins == {"rwx", "thm", "thw"}

HooksOf(p) ==
    CASE p = "rwA" -> {"requestWillFetch"}
      [] p = "rwB" -> {"requestWillFetch"}
      [] p = "upd" -> {"cacheWillUpdate"}
      [] p = "mat" -> {"cacheWillMatch"}
      [] p = "obs" -> {"cacheDidUpdate"}
      [] p = "log" -> {"cacheDidUpdate"}
      [] p = "fdf" -> {"fetchDidFail"}
      [] p = "rep" -> {"fetchDidFail"}
      [] p = "thr" -> {"fetchDidFail"}
      [] p = "thu" -> {"cacheDidUpdate"}
      [] p = "rwx" -> {"requestWillFetch"}
      [] p = "thm" -> {"cacheWillMatch"}
      [] p = "thw" -> {"cacheWillUpdate"}
      [] p = "exp" -> {"cacheWillMatch", "cacheDidUpdate"}

\* requestWillFetch of the user plugins: rwA sends a to b, rwB sends b to c.
RequestWillFetch(p, request) ==
    CASE p = "rwA" /\ request = "a" -> "b"
      [] p = "rwB" /\ request = "b" -> "c"
      [] OTHER -> request

\* What a requestWillFetch callback returns: a Promise that resolves to a
\* Request, or (rwx) a Promise that rejects for a, a value that is not a
\* Promise for b, a Promise that resolves to no Request for c.
RequestWillFetchReturns(p, request) ==
    CASE p = "rwx" /\ request = "a" -> "rejects"
      [] p = "rwx" /\ request = "b" -> "not-a-promise"
      [] p = "rwx" /\ request = "c" -> "not-a-request"
      [] OTHER -> "request"

\* the error of a rejected requestWillFetch promise
RewriteError == "rewrite-error"
\* the error assert.isInstance throws
AssertionError == "assertion-error"

\* cacheWillMatch / cacheWillUpdate of the user plugins: thm and thw throw
CacheWillMatchThrows(p) == p = "thm"
CacheWillUpdateThrows(p) == p = "thw"
\* the error a transform callback throws
TransformError == "transform-error"

\* fetchDidFail of the user plugins: thr throws, the others return
FetchDidFailThrows(p) == p = "thr"

\* cacheDidUpdate of the user plugins: thu throws, the others return
CacheDidUpdateThrows(p) == p = "thu"

\* cacheWillUpdate of the user plugin upd.
CacheWillUpdate(p, request, response) == response.status \in {0, 200}

(***************************************************************************)
(* RequestWrapper constructor.                                             *)
(***************************************************************************)
NoCallbacks == [h \in HookNames |-> <<>>]

\* plugins.forEach: push every callback the plugin has on the hook's list
PushCallbacks(cbs, plugin) ==
    [h \in HookNames |->
        IF h \in HooksOf(plugin) THEN Append(cbs[h], plugin) ELSE cbs[h]]

RECURSIVE RegisterPlugins(_, _)
RegisterPlugins(cbs, plugins) ==
    IF plugins = <<>> THEN cbs
    ELSE RegisterPlugins(PushCallbacks(cbs, Head(plugins)), Tail(plugins))

\* this.pluginCallbacks[name] is undefined until a callback is pushed
Registered(cbs, h) == cbs[h] # <<>>

TooManyLoose(cbs, h) == Registered(cbs, h) /\ Len(cbs[h]) > 2
TooMany(cbs, h) == Registered(cbs, h) /\ Len(cbs[h]) # 1

\* the name used when the constructor is given no cacheName
DefaultCacheName == "sw-runtime-caching-<scope>"
NoName == ""

\* new RequestWrapper({plugins})
NewRequestWrapper(plugins) ==
    LET cbs == RegisterPlugins(NoCallbacks, plugins) IN
    IF TooMany(cbs, "cacheWillUpdate")
    THEN [state |-> "failed", err |-> "multiple-cache-will-update-plugins",
          plugins |-> plugins, pluginCallbacks |-> NoCallbacks,
          cacheName |-> DefaultCacheName]
    ELSE IF TooMany(cbs, "cacheWillMatch")
    THEN [state |-> "failed", err |-> "multiple-cache-will-match-plugins",
          plugins |-> plugins, pluginCallbacks |-> NoCallbacks,
          cacheName |-> DefaultCacheName]
    ELSE [state |-> "constructed", err |-> "",
          plugins |-> plugins, pluginCallbacks |-> cbs,
          cacheName |-> DefaultCacheName]

\* new RequestWrapper({cacheName, plugins})
NewNamedRequestWrapper(cacheName, plugins) ==
    [NewRequestWrapper(plugins) EXCEPT
        !.cacheName = IF cacheName # NoName THEN cacheName ELSE @]

NoWrapper ==
    [state |-> "none", err |-> "", plugins |-> <<>>,
     pluginCallbacks |-> NoCallbacks, cacheName |-> NoName]

RECURSIVE SeqsUpTo(_, _)
SeqsUpTo(S, n) ==
    IF n = 0 THEN {<<>>}
    ELSE LET shorter == SeqsUpTo(S, n - 1) IN
         shorter \cup {Append(s, x) : s \in shorter, x \in S}

\* every plugin list the constructor is tried on
PluginLists == SeqsUpTo(PluginPool, MaxPlugins)


(***************************************************************************)
(* The cache-expiration Plugin: pure parts.                                *)
(***************************************************************************)
\* keys of the timestamp store: the url of a Response ("" when opaque)
Keys == Urls \cup {""}

\* primary-key order of the object store (keyPath url)
KeyRank(u) ==
    CASE u = "" -> 0 [] u = "a" -> 1 [] u = "b" -> 2 [] u = "c" -> 3

Stored(db) == {u \in Keys : db[u] # NoRecord}

\* the timestamp index is walked in ascending (timestamp, url) order
Before(db, u, v) ==
    db[u] < db[v] \/ (db[u] = db[v] /\ KeyRank(u) < KeyRank(v))

RECURSIVE WalkFrom(_, _)
WalkFrom(db, left) ==
    IF left = {} THEN <<>>
    ELSE LET first == CHOOSE u \in left :
                          \A v \in left \ {u} : Before(db, u, v) IN
         <<first>> \o WalkFrom(db, left \ {first})

IterateCursorByUrl(db) == WalkFrom([u \in Keys |-> 0], Stored(db))
IterateCursor(db) == WalkFrom(db, Stored(db))

\* findOldEntries: the records with timestamp < now - maxAgeSeconds * 1000
RECURSIVE CollectOld(_, _, _)
CollectOld(db, order, expireOlderThan) ==
    IF order = <<>> THEN <<>>
    ELSE (IF db[Head(order)] < expireOlderThan THEN <<Head(order)>> ELSE <<>>)
         \o CollectOld(db, Tail(order), expireOlderThan)

FindOldEntriesOffByOne(db, now, maxAgeSeconds) ==
    CollectOld(db, IterateCursor(db), now - (maxAgeSeconds * MsPerSecond) - 1)
FindOldEntries(db, now, maxAgeSeconds) ==
    CollectOld(db, IterateCursor(db), now - (maxAgeSeconds * MsPerSecond))

\* findExtraEntries' cursor callback: push, and continue while
\* initialCount - urls.length > maxEntries
RECURSIVE CursorWalk(_, _, _, _)
CursorWalk(order, urls, initialCount, maxEntries) ==
    IF order = <<>> THEN urls
    ELSE LET pushed == Append(urls, Head(order)) IN
         IF initialCount - Len(pushed) > maxEntries
         THEN CursorWalk(Tail(order), pushed, initialCount, maxEntries)
         ELSE pushed

FindExtraCursorOneMore(db, initialCount, maxEntries) ==
    CursorWalk(IterateCursor(db), <<>>, initialCount + 1, maxEntries)
FindExtraCursor(db, initialCount, maxEntries) ==
    CursorWalk(IterateCursor(db), <<>>, initialCount, maxEntries)

\* [...new Set(oldEntries.concat(extraEntries))]
RECURSIVE Uniq(_, _)
Uniq(s, seen) ==
    IF s = <<>> THEN <<>>
    ELSE IF Head(s) \in seen THEN Uniq(Tail(s), seen)
    ELSE <<Head(s)>> \o Uniq(Tail(s), seen \cup {Head(s)})

Range(s) == {s[i] : i \in 1..Len(s)}

(***************************************************************************)
(* State.                                                                  *)
(***************************************************************************)
VARIABLES
    wrapper,     \* the RequestWrapper: construction result, pluginCallbacks
    wcache,      \* RequestWrapper._cache is set (getCache memo)
    cache,       \* the response cache named wrapper.cacheName: url -> Response
    calls,       \* the fetchAndCache calls, by call number
    fetches,     \* responses the network has produced so far
    plugin,      \* the expiration Plugin: maxEntries, maxAgeSeconds (0: unset)
    idb,         \* the timestamp object store of the cache: url -> timestamp
    jobs,        \* the Plugin.cacheDidUpdate runs, by the call that made them
    clock,       \* Date.now()
    overlapped,  \* history: some fetchAndCache began while another chain ran
    matches,     \* the RequestWrapper.match / isResponseFresh calls, by number
    handler      \* the strategy handler's handle() call

vars ==
    <<wrapper, wcache, cache, calls, fetches, plugin, idb, jobs, clock,
      overlapped, matches, handler>>

CallIds == 1..Max(MaxCalls, MaxStores)

Times ==
    {0} \cup {s * MsPerSecond + e : s \in 1..MaxSeconds, e \in 0..MaxExtraMs}

IdleCall ==
    [pc |-> "idle", ret |-> "none", err |-> "",
     request |-> NoKey, waitOnCache |-> FALSE, cacheKey |-> NoKey,
     cur |-> NoKey, rwfSeen |-> <<>>, netSeen |-> <<>>, fdfSeen |-> <<>>,
     response |-> NoResponse, cacheable |-> FALSE,
     oldResponse |-> NoResponse, held |-> NoResponse,
     putDone |-> FALSE, cduSeen |-> <<>>,
     newResponse |-> NoObject, putObject |-> NoObject, retObject |-> NoObject,
     bodyUsed |-> {}, netErr |-> "", putFailed |-> FALSE, steps |-> <<>>]

\* `selected` is history: for each url the run has selected, the response
\* the cache held (its id) and the timestamp the index held at that moment
NotSelected == [id |-> 0, timestamp |-> NoRecord]
IdleJob ==
    [pc |-> "idle", url |-> "", now |-> 0, oldEntries |-> <<>>,
     initialCount |-> 0, extraEntries |-> <<>>, extraDone |-> FALSE,
     urls |-> <<>>, returned |-> FALSE,
     del |-> [u \in Keys |-> "none"],
     selected |-> [u \in Keys |-> NotSelected]]

\* Values an option of the Plugin constructor can have, with typeof and
\* truthiness; n is the number when the value is one.
Undefined == [type |-> "undefined", truthy |-> FALSE, n |-> 0]
Null == [type |-> "object", truthy |-> FALSE, n |-> 0]
EmptyObject == [type |-> "object", truthy |-> TRUE, n |-> 0]
Boolean(b) == [type |-> "boolean", truthy |-> b, n |-> 0]
String(digits) ==
    [type |-> "string", truthy |-> digits # "", n |-> 0]
Number(n) == [type |-> "number", truthy |-> n # 0, n |-> n]

\* what the methods of the Plugin read from this.maxEntries and
\* this.maxAgeSeconds: 0 stands for every falsy value
Limit(value) == IF value.truthy THEN value.n ELSE 0

\* new Plugin({maxEntries, maxAgeSeconds})
NewPlugin(maxEntries, maxAgeSeconds) ==
    LET made(state, err) ==
            [state |-> state, err |-> err,
             options |-> [maxEntries |-> maxEntries,
                          maxAgeSeconds |-> maxAgeSeconds],
             maxEntries |-> IF state = "constructed"
                            THEN Limit(maxEntries) ELSE 0,
             maxAgeSeconds |-> IF state = "constructed"
                               THEN Limit(maxAgeSeconds) ELSE 0] IN
    IF ~(maxEntries.truthy \/ maxAgeSeconds.truthy)
    THEN made("failed", "max-entries-or-age-required")
    ELSE IF maxEntries.truthy /\ maxEntries.type # "number"
    THEN made("failed", "max-entries-must-be-number")
    ELSE IF maxAgeSeconds.truthy /\ maxAgeSeconds.type # "number"
    THEN made("failed", "max-age-seconds-must-be-number")
    ELSE made("constructed", "")

\* no Plugin constructed
NoPlugin ==
    [state |-> "none", err |-> "",
     options |-> [maxEntries |-> Undefined, maxAgeSeconds |-> Undefined],
     maxEntries |-> 0, maxAgeSeconds |-> 0]

MatchIds == 1..MaxMatches
GetCacheIds == 1..MaxGetCache

\* A Cache object is identified by the getCache call whose caches.open
\* resolved with it: every caches.open resolves with a new Cache object.
NoHandle == 0

\* `after` is history: the fetchAndCache calls that had finished when the
\* match was called (for a getCache call: the getCache calls that had
\* resolved).  A getCache call keeps the name it passed to caches.open, the
\* position of its caches.open among those that resolved (0: it made none)
\* and the handle it returned.
IdleMatch ==
    [pc |-> "idle", op |-> "none", request |-> NoKey,
     cachedResponse |-> NoResponse, now |-> 0, result |-> NoResponse,
     fresh |-> TRUE, after |-> {}, err |-> "",
     name |-> NoName, opened |-> 0, handle |-> NoHandle]

\* A strategy handler's handle() call: its fetchAndCache call, its timer
\* (NetworkFirst with networkTimeoutSeconds), its match calls, and what it
\* has settled with.
IdleHandler ==
    [pc |-> "idle", kind |-> "none", request |-> NoKey, call |-> 0,
     timer |-> "none", timerMatch |-> 0,
     fallback |-> "none", fallbackMatch |-> 0,
     cacheMatch |-> 0, cacheSeen |-> FALSE, netSeen |-> FALSE,
     netLate |-> FALSE,
     ret |-> "none", result |-> NoResponse, err |-> "", source |-> "none"]

InitBase ==
    /\ wcache = FALSE
    /\ cache = [u \in Urls |-> NoResponse]
    /\ calls = [c \in CallIds |-> IdleCall]
    /\ fetches = 0
    /\ idb = [u \in Keys |-> NoRecord]
    /\ jobs = [c \in CallIds |-> IdleJob]
    /\ clock = 0
    /\ overlapped = FALSE
    /\ matches = [m \in 1..Max(MaxMatches, MaxGetCache) |-> IdleMatch]
    /\ handler = IdleHandler

Cbs(h) == wrapper.pluginCallbacks[h]
Has(h) == Registered(wrapper.pluginCallbacks, h)

CallActive(c) == calls[c].pc \notin {"idle", "done"}
JobActive(c) == jobs[c].pc \notin {"idle", "done"}
Requested == {calls[c].request : c \in {d \in CallIds : calls[d].pc # "idle"}}
Active == {c \in CallIds : CallActive(c) \/ JobActive(c)}
Quiescent == \A c \in CallIds : ~CallActive(c) /\ ~JobActive(c)

(***************************************************************************)
(* RequestWrapper constructor as an operation (SpecCtor).                  *)
(***************************************************************************)
Construct(plugins) ==
    /\ wrapper' = NewRequestWrapper(plugins)
    /\ UNCHANGED <<wcache, cache, calls, fetches, plugin, idb, jobs, clock,
                   overlapped, matches, handler>>

\* the Plugin constructor as an operation (SpecPlugin)
ConstructPlugin(maxEntries, maxAgeSeconds) ==
    /\ plugin' = NewPlugin(maxEntries, maxAgeSeconds)
    /\ UNCHANGED <<wrapper, wcache, cache, calls, fetches, idb, jobs, clock,
                   overlapped, matches, handler>>

(***************************************************************************)
(* RequestWrapper.fetch and fetchAndCache.                                 *)
(***************************************************************************)
\* The state of fetch() once `done` requestWillFetch callbacks have resolved
\* and the request is `request`: the next callback is invoked, or the
\* network is called.
FetchNextStale(call, request) ==
    LET list == Cbs("requestWillFetch")
        done == Len(call.rwfSeen) IN
    IF done < Len(list)
    THEN [call EXCEPT !.pc = "requestWillFetch", !.cur = request,
             !.rwfSeen = Append(@, [plugin |-> list[done + 1],
                                    request |-> call.request])]
    ELSE [call EXCEPT !.pc = "fetch", !.cur = request,
             !.netSeen = Append(@, request)]
\* An error thrown in fetch() ahead of its try block: fetch rejects with
\* it, and so does fetchAndCache, which awaits fetch.
FetchThrowsToNetwork(call, err) ==
    [call EXCEPT !.pc = "fetch", !.netSeen = Append(@, call.cur)]
FetchThrows(call, err) ==
    [call EXCEPT !.pc = "done", !.ret = "rejected", !.err = err]

FetchNext(call, request) ==
    LET list == Cbs("requestWillFetch")
        done == Len(call.rwfSeen)
        invoked ==
            [call EXCEPT !.pc = "requestWillFetch", !.cur = request,
                !.rwfSeen = Append(@, [plugin |-> list[done + 1],
                                       request |-> request])] IN
    IF done < Len(list)
    THEN IF RequestWillFetchReturns(list[done + 1], request) = "not-a-promise"
         THEN FetchThrows(invoked, AssertionError)
         ELSE invoked
    ELSE [call EXCEPT !.pc = "fetch", !.cur = request,
             !.netSeen = Append(@, request)]

\* fetchAndCache({request, waitOnCache, cacheKey}) is called: it runs into
\* this.fetch, up to the first await.
StartFetchAndCache(c, request, waitOnCache, cacheKey) ==
    /\ wrapper.state = "constructed"
    /\ calls[c].pc = "idle"
    /\ \A d \in CallIds : d < c => calls[d].pc # "idle"
    /\ calls' = [calls EXCEPT ![c] =
          FetchNext([IdleCall EXCEPT !.ret = "pending", !.request = request,
                        !.waitOnCache = waitOnCache, !.cacheKey = cacheKey],
                    request)]
    /\ overlapped' =
          (overlapped \/ \E d \in CallIds : CallActive(d) \/ JobActive(d))
    /\ UNCHANGED <<wrapper, wcache, cache, fetches, plugin, idb, jobs, clock>>

\* ... called by the application
CallFetchAndCache(c, request, waitOnCache, cacheKey) ==
    /\ StartFetchAndCache(c, request, waitOnCache, cacheKey)
    /\ UNCHANGED <<matches, handler>>

\* the awaited requestWillFetch promise resolves to returnedRequest
RequestWillFetchResolves(c) ==
    /\ calls[c].pc = "requestWillFetch"
    /\ LET last == calls[c].rwfSeen[Len(calls[c].rwfSeen)]
           returns == RequestWillFetchReturns(last.plugin, last.request)
           returnedRequest == RequestWillFetch(last.plugin, last.request) IN
       /\ returns # "rejects"
       /\ calls' = [calls EXCEPT ![c] =
             IF returns = "not-a-request"
             THEN FetchThrows(@, AssertionError)
             ELSE FetchNext(@, returnedRequest)]
    /\ UNCHANGED <<wrapper, wcache, cache, fetches, plugin, idb, jobs, clock,
                   overlapped, matches, handler>>

\* the awaited requestWillFetch promise rejects
RequestWillFetchRejects(c) ==
    /\ calls[c].pc = "requestWillFetch"
    /\ LET last == calls[c].rwfSeen[Len(calls[c].rwfSeen)] IN
       RequestWillFetchReturns(last.plugin, last.request) = "rejects"
    /\ calls' = [calls EXCEPT ![c] = FetchThrows(@, RewriteError)]
    /\ UNCHANGED <<wrapper, wcache, cache, fetches, plugin, idb, jobs, clock,
                   overlapped, matches, handler>>

\* the fetchDidFail callbacks invoked by the loop in fetch's catch block:
\* a callback that throws ends the loop
RECURSIVE FetchDidFailLoop(_)
FetchDidFailLoop(callbacks) ==
    IF callbacks = <<>> THEN <<>>
    ELSE IF FetchDidFailThrows(Head(callbacks)) THEN <<Head(callbacks)>>
    ELSE <<Head(callbacks)>> \o FetchDidFailLoop(Tail(callbacks))

\* what fetch rejects with: the error thrown out of the catch block
FetchRejection(callbacks, err) ==
    IF \E i \in 1..Len(callbacks) : FetchDidFailThrows(callbacks[i])
    THEN "observer-error" ELSE err

\* the network call rejects with err: the fetchDidFail callbacks, then
\* `throw err`; fetchAndCache rejects with what fetch rejects with
FetchRejects(c, err) ==
    /\ calls[c].pc = "fetch"
    /\ calls' = [calls EXCEPT ![c] =
          [@ EXCEPT !.pc = "done", !.ret = "rejected", !.netErr = err,
              !.err = FetchRejection(Cbs("fetchDidFail"), err),
              !.fdfSeen =
                  LET invoked == FetchDidFailLoop(Cbs("fetchDidFail")) IN
                  [i \in 1..Len(invoked) |->
                      [plugin |-> invoked[i], request |-> calls[c].cur]]]]
    /\ UNCHANGED <<wrapper, wcache, cache, fetches, plugin, idb, jobs, clock,
                   overlapped, matches, handler>>

\* let cacheable = response.ok; a cacheWillUpdate plugin overrides it
CacheableNever(request, response) == FALSE
Cacheable(request, response) ==
    IF Has("cacheWillUpdate")
    THEN CacheWillUpdate(Cbs("cacheWillUpdate")[1], request, response)
    ELSE Ok(response)

\* where the caching callback suspends first: the oldResponse lookup is made
\* only for a non-opaque response with a cacheDidUpdate callback registered
AfterGetCachePut(response) == "put"
AfterGetCacheMatch(response) == "match"
AfterGetCache(response) ==
    IF response.type # "opaque" /\ Has("cacheDidUpdate")
    THEN "match" ELSE "put"

\* history of a call: the steps of fetchAndCache begun and completed
Step(name, at) == [step |-> name, at |-> at]

\* fetchAndCache up to the end of its first turn after this.fetch: the
\* cacheability decision, the clone, and the start of the caching callback
\* when the cache is already open
FirstSteps(response, cacheable) ==
    <<Step("cacheable", "end")>>
    \o (IF cacheable THEN <<Step("clone", "end")>> ELSE <<>>)
    \o (IF cacheable /\ wcache
        THEN <<Step(AfterGetCache(response), "start")>> ELSE <<>>)

\* the cacheWillUpdate callback throws: fetchAndCache rejects with the error
UpdateThrows ==
    Has("cacheWillUpdate") /\ CacheWillUpdateThrows(Cbs("cacheWillUpdate")[1])

\* what fetchAndCache does with the response of this.fetch
AfterFetchNoWait(call, response) ==
    IF UpdateThrows
    THEN [call EXCEPT !.response = response, !.pc = "done",
             !.ret = "rejected", !.err = TransformError]
    ELSE IF Cacheable(call.request, response)
    THEN [call EXCEPT !.response = response, !.cacheable = TRUE,
             !.steps = FirstSteps(response, TRUE),
             !.newResponse = Clone(ResponseObject(response)),
             !.pc = IF wcache THEN AfterGetCache(response) ELSE "getCache",
             !.ret = "resolved", !.retObject = ResponseObject(response)]
    ELSE IF call.waitOnCache
    THEN [call EXCEPT !.response = response, !.pc = "done",
             !.steps = FirstSteps(response, FALSE),
             !.ret = "rejected", !.err = "invalid-reponse-for-caching"]
    ELSE [call EXCEPT !.response = response, !.pc = "done",
             !.steps = FirstSteps(response, FALSE),
             !.ret = "resolved", !.retObject = ResponseObject(response)]
AfterFetch(call, response) ==
    IF UpdateThrows
    THEN [call EXCEPT !.response = response, !.pc = "done",
             !.ret = "rejected", !.err = TransformError]
    ELSE IF Cacheable(call.request, response)
    THEN [call EXCEPT !.response = response, !.cacheable = TRUE,
             !.steps = FirstSteps(response, TRUE),
             !.newResponse = Clone(ResponseObject(response)),
             !.pc = IF wcache THEN AfterGetCache(response) ELSE "getCache",
             !.ret = IF call.waitOnCache THEN "pending" ELSE "resolved",
             !.retObject = IF call.waitOnCache THEN NoObject
                           ELSE ResponseObject(response)]
    ELSE IF call.waitOnCache
    THEN [call EXCEPT !.response = response, !.pc = "done",
             !.steps = FirstSteps(response, FALSE),
             !.ret = "rejected", !.err = "invalid-reponse-for-caching"]
    ELSE [call EXCEPT !.response = response, !.pc = "done",
             !.steps = FirstSteps(response, FALSE),
             !.ret = "resolved", !.retObject = ResponseObject(response)]

\* the network call resolves with a Response
FetchResolves(c, status, type, date) ==
    /\ calls[c].pc = "fetch"
    /\ fetches' = fetches + 1
    /\ calls' = [calls EXCEPT ![c] =
          AfterFetch(@, NetResponse(status, type, @.cur, fetches + 1, date))]
    /\ UNCHANGED <<wrapper, wcache, cache, plugin, idb, jobs, clock,
                   overlapped, matches, handler>>

\* this.getCache(): caches.open resolves and is memoised
GetCacheResolves(c) ==
    /\ calls[c].pc = "getCache"
    /\ wcache' = TRUE
    /\ calls' = [calls EXCEPT
          ![c].pc = AfterGetCache(calls[c].response),
          ![c].steps = Append(@, Step(AfterGetCache(calls[c].response),
                                      "start"))]
    /\ UNCHANGED <<wrapper, cache, fetches, plugin, idb, jobs, clock,
                   overlapped, matches, handler>>


\* new Date(dateHeader).getTime(): NaN when the header is not a date
GetTime(dateHeader) ==
    IF dateHeader.kind = "date"
    THEN [nan |-> FALSE, value |-> dateHeader.time]
    ELSE [nan |-> TRUE, value |-> 0]

\* x + ms and x < y on numbers: NaN + ms is NaN, NaN < y is false
PlusMs(x, ms) == IF x.nan THEN x ELSE [x EXCEPT !.value = @ + ms]
LessThanOrEqual(x, y) == ~x.nan /\ x.value <= y
LessThan(x, y) == ~x.nan /\ x.value < y

\* Plugin.isResponseFresh({cachedResponse, now}), `now` given
IsResponseFreshBelow(cachedResponse, now) ==
    IF cachedResponse # NoResponse /\ plugin.maxAgeSeconds # 0
    THEN LET dateHeader == cachedResponse.date IN
         IF dateHeader.kind # "absent"
         THEN ~LessThanOrEqual(PlusMs(GetTime(dateHeader),
                                  plugin.maxAgeSeconds * MsPerSecond), now)
         ELSE TRUE
    ELSE TRUE
IsResponseFresh(cachedResponse, now) ==
    IF cachedResponse # NoResponse /\ plugin.maxAgeSeconds # 0
    THEN LET dateHeader == cachedResponse.date IN
         IF dateHeader.kind # "absent"
         THEN ~LessThan(PlusMs(GetTime(dateHeader),
                               plugin.maxAgeSeconds * MsPerSecond), now)
         ELSE TRUE
    ELSE TRUE

\* cacheWillMatch of the plugins, called at time `now`: the user plugin mat
\* hides a response that is not ok; the expiration Plugin hides a response
\* that is not fresh (now defaults to Date.now()).
CacheWillMatchKeepAll(p, cachedResponse, now) == cachedResponse
CacheWillMatch(p, cachedResponse, now) ==
    CASE p = "mat" ->
            IF cachedResponse # NoResponse /\ ~Ok(cachedResponse)
            THEN NoResponse ELSE cachedResponse
      [] p = "exp" ->
            IF IsResponseFresh(cachedResponse, now)
            THEN cachedResponse ELSE NoResponse
      [] OTHER -> cachedResponse

\* RequestWrapper.match({request}) from cache.match on: the raw result, then
\* the cacheWillMatch transform when one is registered
MatchNothing(request, now) == NoResponse
Match(request, now) ==
    IF Has("cacheWillMatch")
    THEN CacheWillMatch(Cbs("cacheWillMatch")[1], cache[request], now)
    ELSE cache[request]

\* the cacheWillMatch callback throws: match rejects with the error
MatchThrows ==
    Has("cacheWillMatch") /\ CacheWillMatchThrows(Cbs("cacheWillMatch")[1])

\* RequestWrapper.match({request}) is called: up to its first await
StartMatch(m, request) ==
    /\ wrapper.state = "constructed"
    /\ matches[m].pc = "idle"
    /\ \A k \in MatchIds : k < m => matches[k].pc # "idle"
    /\ matches' = [matches EXCEPT ![m] =
          [IdleMatch EXCEPT !.op = "match", !.request = request,
              !.after = {c \in CallIds : calls[c].pc = "done"},
              !.pc = IF wcache THEN "cacheMatch" ELSE "getCache"]]

\* ... called by the application
CallMatch(m, request) ==
    /\ StartMatch(m, request)
    /\ UNCHANGED <<wrapper, wcache, cache, calls, fetches, plugin, idb, jobs,
                   clock, overlapped, handler>>

\* match: const cache = await this.getCache()
MatchGetCacheResolves(m) ==
    /\ matches[m].pc = "getCache"
    /\ wcache' = TRUE
    /\ matches' = [matches EXCEPT ![m].pc = "cacheMatch"]
    /\ UNCHANGED <<wrapper, cache, calls, fetches, plugin, idb, jobs, clock,
                   overlapped, handler>>

\* The caches.open calls of getCache that have resolved
Opened == {g \in GetCacheIds : matches[g].opened > 0}

\* this._cache: the Cache object of the caches.open that resolved last
MemoHandle ==
    IF Opened = {} THEN NoHandle
    ELSE matches[CHOOSE g \in Opened :
            \A h \in Opened : matches[h].opened <= matches[g].opened].handle

\* RequestWrapper.getCache() is called: `if (!this._cache)` and either
\* `return this._cache` or the call of caches.open(this.cacheName)
CallGetCache(g) ==
    /\ wrapper.state = "constructed"
    /\ matches[g].pc = "idle"
    /\ \A k \in GetCacheIds : k < g => matches[k].pc # "idle"
    /\ matches' = [matches EXCEPT ![g] =
          [IdleMatch EXCEPT !.op = "getCache",
              !.after = {k \in GetCacheIds : matches[k].pc = "done"},
              !.name = IF wcache THEN NoName ELSE wrapper.cacheName,
              !.handle = IF wcache THEN MemoHandle ELSE NoHandle,
              !.pc = IF wcache THEN "done" ELSE "open"]]
    /\ UNCHANGED <<wrapper, wcache, cache, calls, fetches, plugin, idb, jobs,
                   clock, overlapped, handler>>

\* getCache: this._cache = await caches.open(this.cacheName) resolves;
\* return this._cache
CachesOpenResolves(g) ==
    /\ matches[g].pc = "open"
    /\ wcache' = TRUE
    /\ matches' = [matches EXCEPT ![g].pc = "done",
                                  ![g].opened = Cardinality(Opened) + 1,
                                  ![g].handle = g]
    /\ UNCHANGED <<wrapper, cache, calls, fetches, plugin, idb, jobs, clock,
                   overlapped, handler>>

CacheMatchResolvesEvicting(m, now) ==
    /\ matches[m].pc = "cacheMatch"
    /\ now >= clock
    /\ clock' = now
    /\ matches' = [matches EXCEPT ![m] =
          [@ EXCEPT !.pc = "done", !.now = now,
              !.cachedResponse = cache[matches[m].request],
              !.result = Match(matches[m].request, now)]]
    /\ cache' = IF Match(matches[m].request, now) = NoResponse
                THEN [cache EXCEPT ![matches[m].request] = NoResponse]
                ELSE cache
    /\ UNCHANGED <<wrapper, wcache, calls, fetches, plugin, idb, jobs,
                   overlapped, handler>>

\* match: await cache.match(request, this.matchOptions) resolves at time
\* `now`; the transform and the return follow in the same turn
CacheMatchResolves(m, now) ==
    /\ matches[m].pc = "cacheMatch"
    /\ now >= clock
    /\ clock' = now
    /\ matches' = [matches EXCEPT ![m] =
          [@ EXCEPT !.pc = "done", !.now = now,
              !.cachedResponse = cache[matches[m].request],
              !.err = IF MatchThrows THEN TransformError ELSE "",
              !.result = IF MatchThrows THEN NoResponse
                         ELSE Match(matches[m].request, now)]]
    /\ UNCHANGED <<wrapper, wcache, cache, calls, fetches, plugin, idb, jobs,
                   overlapped, handler>>

\* Plugin.isResponseFresh({cachedResponse, now}) is called by the application
CallIsResponseFresh(m, cachedResponse, now) ==
    /\ matches[m].pc = "idle"
    /\ \A k \in MatchIds : k < m => matches[k].pc # "idle"
    /\ matches' = [matches EXCEPT ![m] =
          [IdleMatch EXCEPT !.op = "isResponseFresh", !.pc = "done",
              !.cachedResponse = cachedResponse, !.now = now,
              !.fresh = IsResponseFresh(cachedResponse, now)]]
    /\ UNCHANGED <<wrapper, wcache, cache, calls, fetches, plugin, idb, jobs,
                   clock, overlapped, handler>>

\* this.match rejects in the caching callback: cachingComplete rejects, and
\* fetchAndCache with it when it awaits cachingComplete
SnapshotThrows(call) ==
    [call EXCEPT !.pc = "done",
        !.ret = IF call.waitOnCache THEN "rejected" ELSE @,
        !.err = IF call.waitOnCache THEN TransformError ELSE @]

\* oldResponse = await this.match({request})
OldResponseResolves(c) ==
    /\ calls[c].pc = "match"
    /\ calls' = [calls EXCEPT ![c] =
          IF MatchThrows THEN SnapshotThrows(@)
          ELSE [@ EXCEPT
                   !.oldResponse = Match(calls[c].request, clock),
                   !.steps = @ \o <<Step("match", "end"),
                                    Step("put", "start")>>,
                   !.pc = "put"]]
    /\ UNCHANGED <<wrapper, wcache, cache, fetches, plugin, idb, jobs, clock,
                   overlapped, matches, handler>>

CacheRequestIgnoringKey(call) == call.request

\* const cacheRequest = cacheKey || request
CacheRequest(call) ==
    IF call.cacheKey # NoKey THEN call.cacheKey ELSE call.request

\* await cache.put(cacheRequest, newResponse): the cache reads the body of
\* the object it is given; `held` records what the cache held under that key
\* immediately before
PutResolvesKeepFirst(c) ==
    /\ calls[c].pc = "put"
    /\ cache' = IF cache[CacheRequest(calls[c])] = NoResponse
                THEN [cache EXCEPT ![CacheRequest(calls[c])] = calls[c].response]
                ELSE cache
    /\ calls' = [calls EXCEPT ![c].held = cache[CacheRequest(calls[c])],
                              ![c].putDone = TRUE,
                              ![c].putObject = calls[c].newResponse,
                              ![c].bodyUsed = @ \cup {calls[c].newResponse},
                              ![c].steps = Append(@, Step("put", "end")),
                              ![c].pc = "cacheDidUpdate"]
    /\ UNCHANGED <<wrapper, wcache, fetches, plugin, idb, jobs, clock,
                   overlapped, matches, handler>>
PutResolves(c) ==
    /\ calls[c].pc = "put"
    /\ cache' = [cache EXCEPT ![CacheRequest(calls[c])] = calls[c].response]
    /\ calls' = [calls EXCEPT ![c].held = cache[CacheRequest(calls[c])],
                              ![c].putDone = TRUE,
                              ![c].putObject = calls[c].newResponse,
                              ![c].bodyUsed = @ \cup {calls[c].newResponse},
                              ![c].steps = Append(@, Step("put", "end")),
                              ![c].pc = "cacheDidUpdate"]
    /\ UNCHANGED <<wrapper, wcache, fetches, plugin, idb, jobs, clock,
                   overlapped, matches, handler>>

\* await cache.put(cacheRequest, newResponse) rejects: the caching callback
\* ends there, and a fetchAndCache that waits on the cache rejects; how much
\* of the body the cache had read is not known
PutRejects(c, read) ==
    /\ calls[c].pc = "put"
    /\ calls' = [calls EXCEPT ![c] =
          [@ EXCEPT !.pc = "done", !.putFailed = TRUE,
              !.putObject = calls[c].newResponse,
              !.bodyUsed = IF read THEN @ \cup {calls[c].newResponse} ELSE @,
              !.steps = Append(@, Step("put", "failed")),
              !.ret = IF calls[c].waitOnCache THEN "rejected" ELSE @,
              !.err = IF calls[c].waitOnCache THEN "put-error" ELSE @]]
    /\ UNCHANGED <<wrapper, wcache, cache, fetches, plugin, idb, jobs, clock,
                   overlapped, matches, handler>>

\* Plugin.cacheDidUpdate({cacheName, newResponse}): now = Date.now(), and
\* updateTimestamp runs up to its first await
NewJob(newResponse, now) ==
    [IdleJob EXCEPT !.pc = "updateTimestamp", !.url = newResponse.url,
                    !.now = now]

\* the cacheDidUpdate callbacks invoked by the loop after the put: a
\* callback that throws ends the loop
RECURSIVE CacheDidUpdateLoop(_)
CacheDidUpdateLoop(callbacks) ==
    IF callbacks = <<>> THEN <<>>
    ELSE IF CacheDidUpdateThrows(Head(callbacks)) THEN <<Head(callbacks)>>
    ELSE <<Head(callbacks)>> \o CacheDidUpdateLoop(Tail(callbacks))

\* the loop ended by an exception: cachingComplete rejects
FanoutThrows(callbacks) ==
    \E i \in 1..Len(callbacks) : CacheDidUpdateThrows(callbacks[i])

\* the cacheDidUpdate callbacks, in order, after the put; cachingComplete
\* then settles, and with it a fetchAndCache that waits on the cache
CacheDidUpdateFanout(c, now) ==
    /\ calls[c].pc = "cacheDidUpdate"
    /\ now >= clock
    /\ clock' = now
    /\ LET invoked == CacheDidUpdateLoop(Cbs("cacheDidUpdate"))
           thrown == FanoutThrows(Cbs("cacheDidUpdate")) IN
       calls' = [calls EXCEPT ![c] =
          [@ EXCEPT !.pc = "done",
              !.ret = IF ~thrown THEN "resolved"
                      ELSE IF calls[c].waitOnCache THEN "rejected" ELSE @,
              !.err = IF thrown /\ calls[c].waitOnCache
                      THEN "observer-error" ELSE @,
              !.retObject = IF thrown /\ calls[c].waitOnCache THEN @
                            ELSE ResponseObject(calls[c].response),
              !.steps = @ \o <<Step("cacheDidUpdate", "start"),
                               Step("cacheDidUpdate",
                                    IF thrown THEN "failed" ELSE "end")>>,
              !.cduSeen = [i \in 1..Len(invoked) |->
                  [plugin |-> invoked[i],
                   cacheName |-> wrapper.cacheName,
                   oldResponse |-> calls[c].oldResponse,
                   newResponse |-> calls[c].response,
                   newObject |-> calls[c].newResponse]]]]
    /\ jobs' = IF "exp" \in Range(CacheDidUpdateLoop(Cbs("cacheDidUpdate")))
               THEN [jobs EXCEPT ![c] = NewJob(calls[c].response, now)]
               ELSE jobs
    /\ UNCHANGED <<wrapper, wcache, cache, fetches, plugin, idb, overlapped,
                   matches, handler>>

(***************************************************************************)
(* The strategy handlers NetworkFirst and StaleWhileRevalidate, on top of  *)
(* RequestWrapper.match and fetchAndCache.  A handler's reaction to a      *)
(* promise of the wrapper settling is a step of its own, which runs before *)
(* any further I/O completes (ReactionPending).                            *)
(***************************************************************************)
Resolved(h, response, source) ==
    [h EXCEPT !.pc = "done", !.ret = "resolved", !.result = response,
              !.source = source]
Rejected(h, err) ==
    [h EXCEPT !.pc = "done", !.ret = "rejected", !.err = err]

\* NetworkFirst.handle: P_net = wrapper.fetchAndCache({request}), and the
\* timer when networkTimeoutSeconds is set
HandleNetworkFirst(c, request, timeout) ==
    /\ handler.pc = "idle"
    /\ StartFetchAndCache(c, request, FALSE, NoKey)
    /\ handler' = [IdleHandler EXCEPT !.pc = "pending", !.ret = "pending",
                      !.kind = "NetworkFirst", !.request = request,
                      !.call = c,
                      !.timer = IF timeout THEN "armed" ELSE "none"]
    /\ UNCHANGED matches

\* the timer expires: it resolves with wrapper.match(request)
TimerFires(m) ==
    /\ handler.kind = "NetworkFirst"
    /\ handler.timer = "armed" /\ handler.ret = "pending"
    /\ StartMatch(m, handler.request)
    /\ handler' = [handler EXCEPT !.timer = "fired", !.timerMatch = m]
    /\ UNCHANGED <<wrapper, wcache, cache, calls, fetches, plugin, idb, jobs,
                   clock, overlapped>>

\* the timer's match has resolved: it wins the race only with a response
TimerMatchDone ==
    /\ handler.kind = "NetworkFirst" /\ handler.timer = "fired"
    /\ matches[handler.timerMatch].pc = "done"
    /\ LET response == matches[handler.timerMatch].result IN
       handler' = IF handler.ret # "pending"
                  THEN [handler EXCEPT !.timer = "late"]
                  ELSE IF response # NoResponse
                  THEN Resolved([handler EXCEPT !.timer = "done"],
                                response, "timer")
                  ELSE [handler EXCEPT !.timer = "done"]
    /\ UNCHANGED <<wrapper, wcache, cache, calls, fetches, plugin, idb, jobs,
                   clock, overlapped, matches>>

\* P_net has resolved: it wins the race unless the race is over
NetworkFirstNetworkResolved ==
    /\ handler.kind = "NetworkFirst" /\ ~handler.netSeen
    /\ calls[handler.call].ret = "resolved"
    /\ LET h == [handler EXCEPT !.netSeen = TRUE,
                     !.timer = IF @ = "armed" THEN "cleared" ELSE @] IN
       handler' = IF handler.ret = "pending"
                  THEN Resolved(h, calls[handler.call].response, "network")
                  ELSE [h EXCEPT !.netLate = TRUE]
    /\ UNCHANGED <<wrapper, wcache, cache, calls, fetches, plugin, idb, jobs,
                   clock, overlapped, matches>>

\* P_net has rejected: fall back to wrapper.match(request)
NetworkFirstNetworkRejected(m) ==
    /\ handler.kind = "NetworkFirst" /\ ~handler.netSeen
    /\ calls[handler.call].ret = "rejected"
    /\ handler.ret = "pending"
    /\ StartMatch(m, handler.request)
    /\ handler' = [handler EXCEPT !.netSeen = TRUE, !.fallback = "started",
                      !.fallbackMatch = m,
                      !.timer = IF @ = "armed" THEN "cleared" ELSE @]
    /\ UNCHANGED <<wrapper, wcache, cache, calls, fetches, plugin, idb, jobs,
                   clock, overlapped>>

\* ... after the race was won by the timer: nothing to fall back for
NetworkFirstLateRejection ==
    /\ handler.kind = "NetworkFirst" /\ ~handler.netSeen
    /\ calls[handler.call].ret = "rejected"
    /\ handler.ret # "pending"
    /\ handler' = [handler EXCEPT !.netSeen = TRUE, !.netLate = TRUE]
    /\ UNCHANGED <<wrapper, wcache, cache, calls, fetches, plugin, idb, jobs,
                   clock, overlapped, matches>>

\* the fallback match has resolved: its response, or the network error
FallbackMatchDone ==
    /\ handler.kind = "NetworkFirst" /\ handler.fallback = "started"
    /\ matches[handler.fallbackMatch].pc = "done"
    /\ LET response == matches[handler.fallbackMatch].result
           h == [handler EXCEPT !.fallback = "done"] IN
       handler' = IF handler.ret # "pending" THEN h
                  ELSE IF response # NoResponse
                  THEN Resolved(h, response, "fallback")
                  ELSE Rejected(h, calls[handler.call].err)
    /\ UNCHANGED <<wrapper, wcache, cache, calls, fetches, plugin, idb, jobs,
                   clock, overlapped, matches>>

\* StaleWhileRevalidate.handle: in parallel P_cache = wrapper.match(request)
\* and P_net = wrapper.fetchAndCache({request, waitOnCache: false})
HandleStaleWhileRevalidate(c, m, request) ==
    /\ handler.pc = "idle"
    /\ StartMatch(m, request)
    /\ StartFetchAndCache(c, request, FALSE, NoKey)
    /\ handler' = [IdleHandler EXCEPT !.pc = "pending", !.ret = "pending",
                      !.kind = "StaleWhileRevalidate", !.request = request,
                      !.call = c, !.cacheMatch = m]

\* P_cache has resolved: return it if it is a response
CacheFirstOfTwo ==
    /\ handler.kind = "StaleWhileRevalidate" /\ ~handler.cacheSeen
    /\ matches[handler.cacheMatch].pc = "done"
    /\ LET response == matches[handler.cacheMatch].result
           h == [handler EXCEPT !.cacheSeen = TRUE] IN
       handler' = IF response # NoResponse
                  THEN Resolved(h, response, "cache") ELSE h
    /\ UNCHANGED <<wrapper, wcache, cache, calls, fetches, plugin, idb, jobs,
                   clock, overlapped, matches>>

\* ... else return P_net, once it has settled
NetworkSecondOfTwo ==
    /\ handler.kind = "StaleWhileRevalidate" /\ handler.cacheSeen
    /\ handler.ret = "pending"
    /\ calls[handler.call].ret \in {"resolved", "rejected"}
    /\ handler' =
          IF calls[handler.call].ret = "resolved"
          THEN Resolved(handler, calls[handler.call].response, "network")
          ELSE Rejected(handler, calls[handler.call].err)
    /\ UNCHANGED <<wrapper, wcache, cache, calls, fetches, plugin, idb, jobs,
                   clock, overlapped, matches>>

\* a promise the handler waits on has settled and the handler has not yet
\* reacted to it
ReactionPending ==
    \/ /\ handler.kind = "NetworkFirst"
       /\ \/ ~handler.netSeen
             /\ calls[handler.call].ret \in {"resolved", "rejected"}
          \/ handler.timer = "fired"
             /\ matches[handler.timerMatch].pc = "done"
          \/ handler.fallback = "started"
             /\ matches[handler.fallbackMatch].pc = "done"
    \/ /\ handler.kind = "StaleWhileRevalidate"
       /\ \/ ~handler.cacheSeen /\ matches[handler.cacheMatch].pc = "done"
          \/ handler.cacheSeen /\ handler.ret = "pending"
             /\ calls[handler.call].ret \in {"resolved", "rejected"}

(***************************************************************************)
(* The cache-expiration Plugin: cacheDidUpdate's chain                     *)
(*   updateTimestamp -> expireEntries (findOldEntries, findExtraEntries,   *)
(*   deleteFromCacheAndIDB).                                               *)
(* getDB and getCache of the Plugin only memoise handles; their awaits are *)
(* folded into the step that follows them.                                 *)
(***************************************************************************)
\* deleteFromCacheAndIDB({urls}): `await urls.forEach(async ...)` starts one
\* delete chain per url and awaits undefined, so expireEntries returns the
\* urls in the same turn of the event loop, before any delete has completed.
DeleteFromCacheAndIDB(job, urls) ==
    IF urls = <<>>
    THEN [job EXCEPT !.pc = "done", !.urls = urls, !.returned = TRUE]
    ELSE [job EXCEPT !.pc = "deleting", !.urls = urls, !.returned = TRUE,
             !.del = [u \in Keys |->
                         IF u \in Range(urls) THEN "cache" ELSE "none"],
             !.selected = [u \in Keys |->
                 IF u \in Range(urls)
                 THEN [id |-> IF u \in Urls THEN cache[u].id ELSE 0,
                       timestamp |-> idb[u]]
                 ELSE NotSelected]]

\* expireEntries after findOldEntries: findExtraEntries when maxEntries is set
AfterFindOld(job, oldEntries) ==
    IF plugin.maxEntries # 0
    THEN [job EXCEPT !.pc = "count", !.oldEntries = oldEntries]
    ELSE DeleteFromCacheAndIDB([job EXCEPT !.oldEntries = oldEntries],
                               Uniq(oldEntries, {}))

\* updateTimestamp's transaction completes; then expireEntries starts
UpdateTimestamp(c) ==
    /\ jobs[c].pc = "updateTimestamp"
    /\ idb' = [idb EXCEPT ![jobs[c].url] = jobs[c].now]
    /\ jobs' = [jobs EXCEPT ![c] =
          IF plugin.maxAgeSeconds # 0
          THEN [@ EXCEPT !.pc = "findOldEntries"]
          ELSE AfterFindOld(@, <<>>)]
    /\ UNCHANGED <<wrapper, wcache, cache, calls, fetches, plugin, clock,
                   overlapped, matches, handler>>

\* findOldEntries' cursor walk, one read-only transaction
FindOld(c) ==
    /\ jobs[c].pc = "findOldEntries"
    /\ jobs' = [jobs EXCEPT ![c] =
          AfterFindOld(@, FindOldEntries(idb, @.now, plugin.maxAgeSeconds))]
    /\ UNCHANGED <<wrapper, wcache, cache, calls, fetches, plugin, idb, clock,
                   overlapped, matches, handler>>

\* findExtraEntries: const initialCount = await timestampIndex.count()
CountEntries(c) ==
    /\ jobs[c].pc = "count"
    /\ LET initialCount == Cardinality(Stored(idb)) IN
       jobs' = [jobs EXCEPT ![c] =
          IF initialCount > plugin.maxEntries
          THEN [@ EXCEPT !.pc = "cursor", !.initialCount = initialCount]
          ELSE DeleteFromCacheAndIDB(
                   [@ EXCEPT !.initialCount = initialCount,
                             !.extraDone = TRUE],
                   Uniq(@.oldEntries, {}))]
    /\ UNCHANGED <<wrapper, wcache, cache, calls, fetches, plugin, idb, clock,
                   overlapped, matches, handler>>

\* findExtraEntries: the cursor walk in a new transaction
WalkExtra(c) ==
    /\ jobs[c].pc = "cursor"
    /\ LET extraEntries ==
               FindExtraCursor(idb, jobs[c].initialCount, plugin.maxEntries) IN
       jobs' = [jobs EXCEPT ![c] =
          DeleteFromCacheAndIDB(
              [@ EXCEPT !.extraEntries = extraEntries, !.extraDone = TRUE],
              Uniq(@.oldEntries \o extraEntries, {}))]
    /\ UNCHANGED <<wrapper, wcache, cache, calls, fetches, plugin, idb, clock,
                   overlapped, matches, handler>>

\* await cache.delete(url)
DeleteFromCache(c, url) ==
    /\ jobs[c].pc = "deleting"
    /\ jobs[c].del[url] = "cache"
    /\ cache' = [u \in Urls |-> IF u = url THEN NoResponse ELSE cache[u]]
    /\ jobs' = [jobs EXCEPT ![c].del[url] = "idb"]
    /\ UNCHANGED <<wrapper, wcache, calls, fetches, plugin, idb, clock,
                   overlapped, matches, handler>>

\* store.delete(url); await tx.complete
DeleteFromIDB(c, url) ==
    /\ jobs[c].pc = "deleting"
    /\ jobs[c].del[url] = "idb"
    /\ idb' = [idb EXCEPT ![url] = NoRecord]
    /\ LET del == [jobs[c].del EXCEPT ![url] = "done"] IN
       jobs' = [jobs EXCEPT ![c].del = del,
                            ![c].pc = IF \A u \in Keys : del[u] \in {"none", "done"}
                                      THEN "done" ELSE "deleting"]
    /\ UNCHANGED <<wrapper, wcache, cache, calls, fetches, plugin, clock,
                   overlapped, matches, handler>>

(***************************************************************************)
(* Specifications.                                                         *)
(***************************************************************************)
\* SpecCtor: the constructor, tried on every plugin list.
InitCtor == InitBase /\ wrapper = NoWrapper /\ plugin = NoPlugin
NextCtor == \E plugins \in PluginLists : Construct(plugins)
SpecCtor == InitCtor /\ [][NextCtor]_vars

\* SpecPlugin: the Plugin constructor, tried on every pair of option values.
OptionValues ==
    {Undefined, Null, EmptyObject, Boolean(FALSE), Boolean(TRUE),
     String(""), String("10")}
    \cup {Number(n) : n \in 0..MaxOption}

InitPlugin == InitBase /\ wrapper = NoWrapper /\ plugin = NoPlugin
NextPlugin ==
    \E maxEntries \in OptionValues, maxAgeSeconds \in OptionValues :
        ConstructPlugin(maxEntries, maxAgeSeconds)
SpecPlugin == InitPlugin /\ [][NextPlugin]_vars

\* Spec: one RequestWrapper with user plugins, concurrent fetchAndCache calls.
WrapperPlugins ==
    {<<>>, <<"rwA", "rwB", "obs">>, <<"rwB", "rwA", "fdf", "rep">>,
     <<"upd", "mat", "obs", "log">>, <<"fdf", "thr", "rep">>,
     <<"obs", "thu", "log">>}
CacheNames == {NoName, "t1"}
Requests == {"a", "b"}
NetworkErrors == {"network-error", "aborted"}
CacheKeys == {NoKey, "b"}
Statuses == {200, 404, 500}
Types == {"basic", "opaque"}

Init ==
    /\ InitBase
    /\ plugin = NoPlugin
    /\ \E plugins \in WrapperPlugins, cacheName \in CacheNames :
          /\ cacheName # NoName <=> "log" \in Range(plugins)
          /\ wrapper = NewNamedRequestWrapper(cacheName, plugins)

Next ==
    \/ \E c \in 1..MaxCalls, request \in Requests, waitOnCache \in BOOLEAN,
          cacheKey \in CacheKeys :
          CallFetchAndCache(c, request, waitOnCache, cacheKey)
    \/ \E c \in CallIds : RequestWillFetchResolves(c)
    \/ \E c \in CallIds, err \in NetworkErrors : FetchRejects(c, err)
    \/ \E c \in CallIds, status \in Statuses, type \in Types :
          FetchResolves(c, status, type, NoDateHeader)
    \/ \E c \in CallIds : GetCacheResolves(c)
    \/ \E c \in CallIds : OldResponseResolves(c)
    \/ \E c \in CallIds : PutResolves(c)
    \/ \E c \in CallIds, read \in BOOLEAN : PutRejects(c, read)
    \/ \E c \in CallIds : CacheDidUpdateFanout(c, clock)

Spec == Init /\ [][Next]_vars

\* SpecExp: a RequestWrapper whose only plugin is the expiration Plugin;
\* every response is a cacheable 200 whose url is the request's.
PluginConfigs ==
    {made \in {NewPlugin(IF n = 0 THEN Undefined ELSE Number(n),
                         IF s = 0 THEN Undefined ELSE Number(s)) :
                  n \in 0..MaxEntriesBound, s \in 0..1} :
        made.state = "constructed"}

InitExp ==
    /\ InitBase
    /\ wrapper = NewRequestWrapper(<<"exp">>)
    /\ plugin \in PluginConfigs

NextExp ==
    \/ \E c \in 1..MaxStores, request \in Urls :
          /\ Cardinality(Active) < MaxActive
          /\ \A u \in Urls : KeyRank(u) < KeyRank(request) => u \in Requested
          /\ CallFetchAndCache(c, request, FALSE, NoKey)
    \/ \E c \in CallIds : FetchResolves(c, 200, "basic", NoDateHeader)
    \/ \E c \in CallIds : GetCacheResolves(c)
    \/ \E c \in CallIds : OldResponseResolves(c)
    \/ \E c \in CallIds : PutResolves(c)
    \/ \E c \in CallIds, now \in Times : CacheDidUpdateFanout(c, now)
    \/ \E c \in CallIds : UpdateTimestamp(c)
    \/ \E c \in CallIds : FindOld(c)
    \/ \E c \in CallIds : CountEntries(c)
    \/ \E c \in CallIds : WalkExtra(c)
    \/ \E c \in CallIds, url \in Keys : DeleteFromCache(c, url)
    \/ \E c \in CallIds, url \in Keys : DeleteFromIDB(c, url)

SpecExp == InitExp /\ [][NextExp]_vars

\* SpecMatch: RequestWrapper.match, called while fetchAndCache calls (made
\* one after another) store responses with and without a Date header; the
\* wrapper has the expiration Plugin, the user plugins upd and mat, or no
\* plugin.
MatchPlugins == {<<"exp">>, <<"upd", "mat">>, <<>>}
DateHeaders == {NoDateHeader, InvalidDateHeader, DateHeader(0)}

InitMatch ==
    /\ InitBase
    /\ \E plugins \in MatchPlugins :
          /\ wrapper = NewRequestWrapper(plugins)
          /\ IF plugins = <<"exp">> THEN plugin \in PluginConfigs
                                    ELSE plugin = NoPlugin

NextMatch ==
    \/ \E c \in 1..MaxMatchStores, request \in Urls :
          /\ Active = {}
          /\ \A u \in Urls : KeyRank(u) < KeyRank(request) => u \in Requested
          /\ CallFetchAndCache(c, request, FALSE, NoKey)
    \/ \E c \in CallIds, type \in Types, date \in DateHeaders :
          FetchResolves(c, 200, type, date)
    \/ \E c \in CallIds : GetCacheResolves(c)
    \/ \E c \in CallIds : OldResponseResolves(c)
    \/ \E c \in CallIds : PutResolves(c)
    \/ \E c \in CallIds, now \in Times : CacheDidUpdateFanout(c, now)
    \/ \E c \in CallIds : UpdateTimestamp(c)
    \/ \E c \in CallIds : FindOld(c)
    \/ \E c \in CallIds : CountEntries(c)
    \/ \E c \in CallIds : WalkExtra(c)
    \/ \E c \in CallIds, url \in Keys : DeleteFromCache(c, url)
    \/ \E c \in CallIds, url \in Keys : DeleteFromIDB(c, url)
    \/ \E m \in MatchIds, request \in Requests : CallMatch(m, request)
    \/ \E m \in MatchIds : MatchGetCacheResolves(m)
    \/ \E m \in MatchIds, now \in Times : CacheMatchResolves(m, now)

SpecMatch == InitMatch /\ [][NextMatch]_vars

\* SpecHandler: one handle() call of a NetworkFirst or StaleWhileRevalidate
\* handler, on a cold cache or after the application has stored a response
\* for the request; the application calls match once the handler has
\* settled.
HandlerPlugins == {<<>>, <<"obs", "fdf">>, <<"fdf", "thr">>}

InitHandler ==
    /\ InitBase
    /\ plugin = NoPlugin
    /\ \E plugins \in HandlerPlugins : wrapper = NewRequestWrapper(plugins)

NextHandler ==
    \/ \E c \in 1..MaxCalls :
          /\ handler.pc = "idle"
          /\ CallFetchAndCache(c, "a", FALSE, NoKey)
    \/ \E c \in 1..MaxCalls, timeout \in BOOLEAN :
          Active = {} /\ HandleNetworkFirst(c, "a", timeout)
    \/ \E c \in 1..MaxCalls, m \in MatchIds :
          Active = {} /\ HandleStaleWhileRevalidate(c, m, "a")
    \/ \E m \in MatchIds : ~ReactionPending /\ TimerFires(m)
    \/ TimerMatchDone
    \/ NetworkFirstNetworkResolved
    \/ \E m \in MatchIds : NetworkFirstNetworkRejected(m)
    \/ NetworkFirstLateRejection
    \/ FallbackMatchDone
    \/ CacheFirstOfTwo
    \/ NetworkSecondOfTwo
    \/ \E c \in CallIds, err \in NetworkErrors :
          ~ReactionPending /\ FetchRejects(c, err)
    \/ \E c \in CallIds, status \in {200, 404} :
          ~ReactionPending /\ FetchResolves(c, status, "basic", NoDateHeader)
    \/ \E c \in CallIds : ~ReactionPending /\ GetCacheResolves(c)
    \/ \E c \in CallIds : ~ReactionPending /\ OldResponseResolves(c)
    \/ \E c \in CallIds : ~ReactionPending /\ PutResolves(c)
    \/ \E c \in CallIds, read \in BOOLEAN :
          ~ReactionPending /\ PutRejects(c, read)
    \/ \E c \in CallIds :
          ~ReactionPending /\ CacheDidUpdateFanout(c, clock)
    \/ \E m \in MatchIds :
          /\ handler.pc = "done" /\ ~ReactionPending
          /\ CallMatch(m, "a")
    \/ \E m \in MatchIds : ~ReactionPending /\ MatchGetCacheResolves(m)
    \/ \E m \in MatchIds : ~ReactionPending /\ CacheMatchResolves(m, clock)

SpecHandler == InitHandler /\ [][NextHandler]_vars

\* SpecFresh: Plugin.isResponseFresh applied to responses and times.
CachedResponses ==
    {NetResponse(200, type, "a", 1, date) :
        type \in Types, date \in DateHeaders} \cup {NoResponse}

InitFresh == InitExp

NextFresh ==
    \E m \in MatchIds, cachedResponse \in CachedResponses, now \in Times :
        CallIsResponseFresh(m, cachedResponse, now)

SpecFresh == InitFresh /\ [][NextFresh]_vars

\* SpecGetCache: getCache calls of the application on one wrapper.
InitGetCache ==
    /\ InitBase
    /\ plugin = NoPlugin
    /\ \E cacheName \in CacheNames :
          wrapper = NewNamedRequestWrapper(cacheName, <<>>)

NextGetCache ==
    \/ \E g \in GetCacheIds : CallGetCache(g)
    \/ \E g \in GetCacheIds : CachesOpenResolves(g)

SpecGetCache == InitGetCache /\ [][NextGetCache]_vars

\* SpecRwf: fetchAndCache on wrappers whose requestWillFetch callbacks may
\* fail; the responses are not cacheable.
RwfPlugins ==
    {<<"rwx", "rwA", "fdf">>, <<"rwA", "rwx", "rwB">>, <<"rwA", "rwB", "fdf">>}

InitRwf ==
    /\ InitBase
    /\ plugin = NoPlugin
    /\ \E plugins \in RwfPlugins :
          wrapper = NewNamedRequestWrapper(NoName, plugins)

NextRwf ==
    \/ \E c \in CallIds, request \in Urls, waitOnCache \in BOOLEAN :
          CallFetchAndCache(c, request, waitOnCache, NoKey)
    \/ \E c \in CallIds : RequestWillFetchResolves(c)
    \/ \E c \in CallIds : RequestWillFetchRejects(c)
    \/ \E c \in CallIds, err \in NetworkErrors : FetchRejects(c, err)
    \/ \E c \in CallIds, status \in Statuses \ {200} :
          FetchResolves(c, status, "basic", NoDateHeader)

SpecRwf == InitRwf /\ [][NextRwf]_vars

\* SpecThrow: fetchAndCache and match on wrappers whose cacheWillMatch or
\* cacheWillUpdate callback throws.
ThrowPlugins == {<<"thm", "obs">>, <<"thw", "obs">>, <<"thm">>}

InitThrow ==
    /\ InitBase
    /\ plugin = NoPlugin
    /\ \E plugins \in ThrowPlugins :
          wrapper = NewNamedRequestWrapper(NoName, plugins)

NextThrow ==
    \/ \E c \in 1..MaxCalls, request \in Requests, waitOnCache \in BOOLEAN :
          CallFetchAndCache(c, request, waitOnCache, NoKey)
    \/ \E c \in CallIds, status \in {200, 404} :
          FetchResolves(c, status, "basic", NoDateHeader)
    \/ \E c \in CallIds : GetCacheResolves(c)
    \/ \E c \in CallIds : OldResponseResolves(c)
    \/ \E c \in CallIds : PutResolves(c)
    \/ \E c \in CallIds : CacheDidUpdateFanout(c, clock)
    \/ \E m \in MatchIds, request \in Requests : CallMatch(m, request)
    \/ \E m \in MatchIds : MatchGetCacheResolves(m)
    \/ \E m \in MatchIds : CacheMatchResolves(m, clock)

SpecThrow == InitThrow /\ [][NextThrow]_vars

\* SpecKey: fetchAndCache with a cacheKey or a requestWillFetch rewrite, on
\* wrappers with the expiration Plugin (maxEntries only).
KeyPlugins == {<<"exp">>, <<"rwA", "exp">>}

InitKey ==
    /\ InitBase
    /\ \E plugins \in KeyPlugins : wrapper = NewRequestWrapper(plugins)
    /\ plugin \in {made \in PluginConfigs :
                      made.maxEntries # 0 /\ made.maxAgeSeconds = 0}

NextKey ==
    \/ \E c \in 1..MaxStores, request \in Requests, cacheKey \in CacheKeys :
          /\ Cardinality(Active) < MaxActive
          /\ CallFetchAndCache(c, request, FALSE, cacheKey)
    \/ \E c \in CallIds : RequestWillFetchResolves(c)
    \/ \E c \in CallIds : FetchResolves(c, 200, "basic", NoDateHeader)
    \/ \E c \in CallIds : GetCacheResolves(c)
    \/ \E c \in CallIds : OldResponseResolves(c)
    \/ \E c \in CallIds : PutResolves(c)
    \/ \E c \in CallIds : CacheDidUpdateFanout(c, clock)
    \/ \E c \in CallIds : UpdateTimestamp(c)
    \/ \E c \in CallIds : CountEntries(c)
    \/ \E c \in CallIds : WalkExtra(c)
    \/ \E c \in CallIds, url \in Keys : DeleteFromCache(c, url)
    \/ \E c \in CallIds, url \in Keys : DeleteFromIDB(c, url)

SpecKey == InitKey /\ [][NextKey]_vars


(***************************************************************************)
(* Claims about the expiration Plugin (SpecExp).                           *)
(***************************************************************************)
Made == {c \in CallIds : calls[c].pc # "idle"}
CachedUrls == {u \in Urls : cache[u] # NoResponse}
Gone(u) == idb[u] = NoRecord /\ (u \in Urls => cache[u] = NoResponse)

\* C1: when expireEntries returns its list of urls, every url of the list
\* has been deleted from the cache and from the timestamp index.
C1_ExpireEntriesReturnsAfterDeletes ==
    [][\A c \in CallIds :
          (~jobs[c].returned /\ jobs'[c].returned) =>
              \A u \in Range(jobs'[c].urls) :
                  idb'[u] = NoRecord /\ (u \in Urls => cache'[u] = NoResponse)
      ]_vars

\* The stores so far were made one after another (no fetchAndCache began
\* while another chain was running), for distinct urls, at increasing times.
OneAfterAnother ==
    /\ ~overlapped
    /\ \A c, d \in Made :
          c < d => calls[c].request # calls[d].request /\ jobs[c].now < jobs[d].now

\* the urls of the n most recent stores
MostRecent(n) ==
    {calls[c].request : c \in {d \in Made : d > Cardinality(Made) - n}}

\* C2: with only maxEntries = N configured and distinct urls stored one after
\* another at increasing times, once the work of the last cacheDidUpdate has
\* finished the cache and the timestamp index both hold exactly the N most
\* recently stored urls.
C2_LruKeepsMostRecent ==
    (Quiescent /\ OneAfterAnother /\ plugin.maxAgeSeconds = 0) =>
        /\ Stored(idb) = MostRecent(plugin.maxEntries)
        /\ CachedUrls = MostRecent(plugin.maxEntries)

C2_Witness ==
    /\ Quiescent /\ OneAfterAnother
    /\ plugin.maxEntries = 2 /\ plugin.maxAgeSeconds = 0
    /\ Cardinality(Made) = 3
    /\ Stored(idb) = {"b", "c"}
    /\ CachedUrls = {"b", "c"}

\* The entry stored by call c and the next store d, of another url, made
\* after everything before it had finished and itself finished.
NextUpdateAfter(c, d) ==
    /\ c \in Made /\ d \in Made /\ d = c + 1
    /\ d = Cardinality(Made)
    /\ Quiescent /\ ~overlapped
    /\ plugin.maxAgeSeconds # 0
    /\ calls[c].request # calls[d].request

\* C3 (as stated): an entry written at t0 is deleted from the cache and the
\* index by the next cacheDidUpdate at any t >= t0 + maxAgeSeconds * 1000.
C3_TtlEvictsAtBoundary ==
    \A c, d \in CallIds :
        (/\ NextUpdateAfter(c, d)
         /\ jobs[d].now >= jobs[c].now + plugin.maxAgeSeconds * MsPerSecond)
        => Gone(calls[c].request)

\* C3 (amended): an entry written at t0 is deleted from the cache and the
\* index by the next cacheDidUpdate at any t > t0 + maxAgeSeconds * 1000.
C3_TtlEvictsPastBoundary ==
    \A c, d \in CallIds :
        (/\ NextUpdateAfter(c, d)
         /\ jobs[d].now > jobs[c].now + plugin.maxAgeSeconds * MsPerSecond)
        => Gone(calls[c].request)

C3_Witness ==
    \E c, d \in CallIds :
        /\ NextUpdateAfter(c, d)
        /\ jobs[d].now > jobs[c].now + plugin.maxAgeSeconds * MsPerSecond
        /\ plugin.maxEntries = 0
        /\ jobs[d].urls = <<calls[c].request>>
        /\ Gone(calls[c].request)
        /\ cache[calls[d].request] # NoResponse

\* C4: once all pending operations have completed, every key live in the
\* cache has a timestamp record in the index.
C4_IndexCoversCache ==
    Quiescent => CachedUrls \subseteq Stored(idb)

\* findExtraEntries of run c returns in this step, having walked the index
\* it had counted
FindExtraReturns(c) ==
    /\ ~jobs[c].extraDone /\ jobs'[c].extraDone
    /\ Cardinality(Stored(idb)) = jobs'[c].initialCount

\* C22: findExtraEntries with maxEntries = N on an index of C records
\* returns no url when C <= N, and otherwise the urls of the C - N records
\* with the smallest timestamps, by ascending timestamp.
C22_FindExtraEntries ==
    [][\A c \in CallIds :
          FindExtraReturns(c) =>
              LET extraEntries == jobs'[c].extraEntries
                  C == Cardinality(Stored(idb))
                  N == plugin.maxEntries IN
              IF C <= N THEN extraEntries = <<>>
              ELSE /\ Len(extraEntries) = C - N
                   /\ Cardinality(Range(extraEntries)) = C - N
                   /\ Range(extraEntries) \subseteq Stored(idb)
                   /\ \A i, j \in 1..Len(extraEntries) :
                         i < j => idb[extraEntries[i]] <= idb[extraEntries[j]]
                   /\ \A u \in Range(extraEntries) :
                         \A v \in Stored(idb) \ Range(extraEntries) :
                             idb[u] <= idb[v]
      ]_vars

C22_Witness ==
    \E c, d \in CallIds :
        /\ jobs[c].extraDone /\ jobs[c].initialCount = 3
        /\ plugin.maxEntries = 1
        /\ Len(jobs[c].extraEntries) = 2
        /\ jobs[d].extraDone /\ jobs[d].extraEntries = <<>>
        /\ jobs[d].initialCount = 1

\* the run of expireEntries of update c is at one of its scans
Scanning(c) == jobs[c].pc \in {"findOldEntries", "count", "cursor"}

C23_State ==
    \A c \in CallIds :
        /\ (Scanning(c) /\ ~overlapped) => idb[jobs[c].url] = jobs[c].now
        /\ (jobs[c].returned /\ ~overlapped /\ plugin.maxEntries >= 1) =>
              jobs[c].url \notin Range(jobs[c].urls)

C23_Step ==
    \A c \in CallIds :
        /\ (jobs[c].pc = "idle" /\ jobs'[c].pc # "idle") =>
              /\ calls'[c].pc = "done" /\ calls'[c].ret = "resolved"
              /\ jobs'[c].pc = "updateTimestamp" /\ ~jobs'[c].returned
              /\ idb' = idb /\ cache' = cache
        /\ (jobs[c].pc = "updateTimestamp" /\ jobs'[c].pc # "updateTimestamp")
              => idb'[jobs[c].url] = jobs[c].now

\* C23: Plugin.cacheDidUpdate returns to the wrapper with the timestamp
\* write and the eviction still to come; expireEntries starts in the step
\* that completes the timestamp write of newResponse.url, so that with one
\* update in flight its scans find that url with timestamp now, and with
\* maxEntries >= 1 it does not select that url for deletion.
C23_UpdateThenExpire == []C23_State /\ [][C23_Step]_vars


\* the urls whose timestamp a cacheDidUpdate call has written
Written ==
    {jobs[c].url : c \in {d \in CallIds :
                              jobs[d].pc \notin {"idle", "updateTimestamp"}}}

\* the least number of entries the evictions may leave
Floor ==
    IF plugin.maxEntries <= Cardinality(Written)
    THEN plugin.maxEntries ELSE Cardinality(Written)

\* C31: no over-eviction under concurrency: with only maxEntries = N
\* configured, for every interleaving of concurrent cacheDidUpdate calls, the
\* evictions never leave fewer than min(N, number of distinct URLs stored)
\* records in the index and entries in the cache.
C31_NoOverEviction ==
    plugin.maxEntries # 0 /\ plugin.maxAgeSeconds = 0 =>
        /\ Cardinality(Stored(idb)) >= Floor
        /\ Cardinality({u \in Urls : cache[u] # NoResponse}) >= Floor

\* the step is the run's cache.delete(url) / store.delete(url) completing
DeletesFromCache(c, url) ==
    jobs[c].del[url] = "cache" /\ jobs'[c].del[url] = "idb"
DeletesFromIDB(c, url) ==
    jobs[c].del[url] = "idb" /\ jobs'[c].del[url] = "done"

\* C33: eviction does not destroy a fresh write: when a URL is re-stored
\* (cache.put plus timestamp update) while an expireEntries run that already
\* selected that URL as old or extra is still deleting, the freshly stored
\* response is not removed from the cache and its new timestamp record is
\* not removed from the index.
C33_Step ==
    \A c \in CallIds, url \in Urls :
        /\ DeletesFromCache(c, url) /\ cache[url] # NoResponse =>
              cache[url].id = jobs[c].selected[url].id
        /\ DeletesFromIDB(c, url) /\ idb[url] # NoRecord =>
              idb[url] = jobs[c].selected[url].timestamp

C33_EvictionSparesFreshWrite == [][C33_Step]_vars

(***************************************************************************)
(* Claims about RequestWrapper (Spec, SpecCtor).                           *)
(***************************************************************************)
Answered(c) == calls[c].response # NoResponse
Is2xx(response) == response.status \in 200..299
CachePutBy(c) ==
    [cache EXCEPT ![CacheRequest(calls[c])] = calls[c].response]

\* every answered call, when no cacheWillUpdate plugin is registered
C5_State ==
    \A c \in CallIds :
        (Answered(c) /\ ~Has("cacheWillUpdate")) =>
            IF Is2xx(calls[c].response)
            THEN /\ calls[c].cacheable
                 /\ calls[c].pc \in {"getCache", "match", "put",
                                     "cacheDidUpdate", "done"}
                 /\ calls[c].pc \in {"cacheDidUpdate", "done"}
                        => calls[c].putDone \/ calls[c].putFailed
            ELSE /\ ~calls[c].cacheable
                 /\ calls[c].pc = "done"
                 /\ ~calls[c].putDone
                 /\ calls[c].cduSeen = <<>>
                 /\ ~calls[c].waitOnCache => calls[c].ret = "resolved"

\* the cache changes only by the put of a call (whose response is 2xx when
\* no cacheWillUpdate plugin is registered)
C5_Step ==
    cache' # cache =>
        \E c \in CallIds :
            /\ ~calls[c].putDone /\ calls'[c].putDone
            /\ ~Has("cacheWillUpdate") => Is2xx(calls[c].response)
            /\ cache' = CachePutBy(c)

C6_WaitOnCache ==
    \A c \in CallIds :
        (calls[c].ret = "resolved" /\ calls[c].cacheable) =>
            IF calls[c].waitOnCache
            THEN /\ calls[c].putDone
                 /\ calls[c].pc = "done"
                 /\ Len(calls[c].cduSeen) = Len(Cbs("cacheDidUpdate"))
            ELSE (~calls[c].putDone /\ ~calls[c].putFailed) =>
                     ENABLED (\/ GetCacheResolves(c)
                              \/ OldResponseResolves(c)
                              \/ PutResolves(c))

C6_Witness ==
    \E c, d \in CallIds :
        /\ calls[c].ret = "resolved" /\ calls[c].cacheable
        /\ calls[c].waitOnCache /\ calls[c].putDone
        /\ Len(calls[c].cduSeen) = 2
        /\ calls[d].ret = "resolved" /\ calls[d].cacheable
        /\ ~calls[d].waitOnCache /\ ~calls[d].putDone

\* C7: a fetchAndCache that waits on the cache and whose response is not
\* cacheable fails with the error invalid-response-for-caching, and writes
\* nothing to the cache.
C7_InvalidResponseForCaching ==
    \A c \in CallIds :
        (Answered(c) /\ calls[c].waitOnCache /\ ~calls[c].cacheable) =>
            /\ calls[c].ret = "rejected"
            /\ calls[c].err = "invalid-response-for-caching"
            /\ ~calls[c].putDone

\* C8: the oldResponse given to the cacheDidUpdate callbacks of a non-opaque
\* store is what the cache held under the stored key immediately before the
\* put (none when it held nothing); stated here for calls that do not even
\* overlap.
C8_OldResponseIsWhatWasHeld ==
    \A c \in CallIds :
        \A i \in 1..Len(calls[c].cduSeen) :
            (calls[c].response.type # "opaque" /\ ~overlapped) =>
                calls[c].cduSeen[i].oldResponse = calls[c].held

\* the request after the first k requestWillFetch callbacks of `list`
RECURSIVE Rewritten(_, _, _)
Rewritten(list, k, request) ==
    IF k = 0 THEN request
    ELSE RequestWillFetch(list[k], Rewritten(list, k - 1, request))

\* C9: fetch invokes the requestWillFetch callbacks one at a time in
\* registration order, the first with the original request and each next
\* one with the request the previous one resolved to, and calls the network
\* exactly once, with the request the last one resolved to.
C9_RequestRewriteOrder ==
    \A c \in CallIds :
        LET list == Cbs("requestWillFetch")
            seen == calls[c].rwfSeen IN
        calls[c].pc # "idle" =>
            /\ Len(seen) <= Len(list)
            /\ \A k \in 1..Len(seen) :
                  /\ seen[k].plugin = list[k]
                  /\ seen[k].request = Rewritten(list, k - 1, calls[c].request)
            /\ IF calls[c].pc = "requestWillFetch"
               THEN calls[c].netSeen = <<>>
               ELSE /\ Len(seen) = Len(list)
                    /\ calls[c].netSeen =
                          <<Rewritten(list, Len(list), calls[c].request)>>

C9_Witness ==
    \E c \in CallIds :
        /\ Cbs("requestWillFetch") = <<"rwA", "rwB">>
        /\ calls[c].request = "a"
        /\ calls[c].rwfSeen = <<[plugin |-> "rwA", request |-> "a"],
                                [plugin |-> "rwB", request |-> "b"]>>
        /\ calls[c].netSeen = <<"c">>

Providers(h) ==
    {i \in 1..Len(wrapper.plugins) : h \in HooksOf(wrapper.plugins[i])}

C11_CloneDiscipline ==
    \A c \in CallIds :
        LET call == calls[c] IN
        /\ call.putDone =>
              /\ call.putObject = call.newResponse
              /\ call.putObject # ResponseObject(call.response)
        /\ call.ret = "resolved" =>
              /\ call.retObject = ResponseObject(call.response)
              /\ call.retObject \notin call.bodyUsed
        /\ call.bodyUsed \subseteq {call.putObject} \ {call.retObject}

C11_Witness ==
    \E c, d \in CallIds :
        /\ calls[c].ret = "resolved" /\ calls[c].putDone
        /\ calls[c].waitOnCache
        /\ calls[c].bodyUsed = {calls[c].putObject}
        /\ calls[c].retObject \notin calls[c].bodyUsed
        /\ calls[d].ret = "resolved" /\ ~calls[d].waitOnCache
        /\ calls[d].cacheable /\ ~calls[d].putDone

\* C14: when the network call rejects with error E, every registered
\* fetchDidFail callback is invoked, in registration order, with the request
\* that was given to the network, and fetchAndCache rejects with E, having
\* made no cacheability decision, no put and no cacheDidUpdate call.
C14_NetworkFailure ==
    \A c \in CallIds :
        LET call == calls[c] IN
        call.netErr # "" =>
            /\ call.fdfSeen =
                  [i \in 1..Len(Cbs("fetchDidFail")) |->
                      [plugin |-> Cbs("fetchDidFail")[i],
                       request |-> call.netSeen[1]]]
            /\ call.ret = "rejected"
            /\ call.err = call.netErr
            /\ call.steps = <<>>
            /\ ~call.cacheable /\ ~call.putDone /\ ~call.putFailed
            /\ call.cduSeen = <<>>

\* the plugins of the wrapper that have the hook, as they were given
InRegistrationOrder(hook) ==
    SelectSeq(wrapper.plugins, LAMBDA p : hook \in HooksOf(p))

\* the oldResponse lookup is due: a cacheDidUpdate plugin is registered and
\* the response is not opaque
SnapshotDue(call) ==
    /\ call.response.type # "opaque"
    /\ InRegistrationOrder("cacheDidUpdate") # <<>>

\* the steps of one fetchAndCache call in their order
StepOrder(call) ==
    <<Step("cacheable", "end"), Step("clone", "end")>>
    \o (IF SnapshotDue(call)
        THEN <<Step("match", "start"), Step("match", "end")>> ELSE <<>>)
    \o <<Step("put", "start"), Step("put", "end"),
         Step("cacheDidUpdate", "start"), Step("cacheDidUpdate", "end")>>

\* a step that failed is over, as one that ended
Over(step) == IF step.at = "failed" THEN Step(step.step, "end") ELSE step

C19_State ==
    \A c \in CallIds :
        LET call == calls[c]
            order == StepOrder(call) IN
        /\ Len(call.steps) <= Len(order)
        /\ \A i \in 1..Len(call.steps) : Over(call.steps[i]) = order[i]
        /\ \A i \in 1..(Len(call.steps) - 1) :
              call.steps[i].at # "failed"
        /\ ~call.cacheable => Len(call.steps) <= 1
        /\ call.putDone <=> Step("put", "end") \in Range(call.steps)
        /\ call.putFailed <=> Step("put", "failed") \in Range(call.steps)
        /\ call.newResponse # NoObject
              <=> Step("clone", "end") \in Range(call.steps)
        /\ call.cduSeen # <<>> =>
              /\ call.putDone
              /\ Step("cacheDidUpdate", "start") \in Range(call.steps)
        /\ call.oldResponse # NoResponse =>
              Step("match", "end") \in Range(call.steps)
        /\ (call.putDone /\ SnapshotDue(call)) =>
              Step("match", "end") \in Range(call.steps)

C19_Step ==
    \A c \in CallIds :
        /\ calls'[c].oldResponse # calls[c].oldResponse =>
              /\ calls[c].newResponse # NoObject
              /\ ~calls[c].putDone /\ ~calls'[c].putDone
        /\ (~calls[c].putDone /\ calls'[c].putDone) =>
              /\ calls[c].cacheable /\ calls[c].newResponse # NoObject
              /\ calls'[c].oldResponse = calls[c].oldResponse
              /\ calls'[c].cduSeen = <<>>
        /\ calls'[c].cduSeen # calls[c].cduSeen => calls[c].putDone

\* C19: within one fetchAndCache call the steps follow one another in the
\* order cacheability decision, clone, oldResponse lookup (when due),
\* cache.put, cacheDidUpdate callbacks, none starting before the one before
\* it is over; no cacheDidUpdate callback is invoked before the put has
\* completed, and oldResponse is read before the put.
C19_StepsInOrder == []C19_State /\ [][C19_Step]_vars

C19_Witness ==
    \E c, d \in CallIds :
        /\ calls[c].pc = "done" /\ Len(calls[c].steps) = 8
        /\ Len(calls[c].cduSeen) = 2
        /\ calls[d].pc = "done" /\ Len(calls[d].steps) = 6
        /\ SnapshotDue(calls[c]) /\ ~SnapshotDue(calls[d])

Writers(key) ==
    {c \in CallIds : calls[c].putDone /\ CacheRequest(calls[c]) = key}
LastWriters(key) ==
    {c \in Writers(key) :
        \A d \in Writers(key) : calls[d].held # calls[c].response}

C24_State ==
    /\ \A c \in CallIds :
          calls[c].pc \notin {"idle", "requestWillFetch"} =>
              Len(calls[c].netSeen) = 1
    /\ \A c, d \in CallIds :
          (c # d /\ Answered(c) /\ Answered(d)) =>
              calls[c].response.id # calls[d].response.id
    /\ \A key \in Urls :
          Writers(key) # {} =>
              /\ Cardinality(LastWriters(key)) = 1
              /\ \A c \in LastWriters(key) : cache[key] = calls[c].response

C24_Step ==
    \A c \in CallIds :
        (~calls[c].putDone /\ calls'[c].putDone) =>
            cache'[CacheRequest(calls[c])] = calls[c].response

\* C24: overlapping fetchAndCache calls on one request each make their own
\* network call and their own cache.put, and the cache holds the response
\* of the put that completed last, whichever call began first.
C24_LastWriterWins == []C24_State /\ [][C24_Step]_vars

C24_Witness ==
    \E c, d \in CallIds :
        /\ c < d /\ overlapped
        /\ calls[c].request = calls[d].request
        /\ calls[c].pc = "done" /\ calls[d].pc = "done"
        /\ calls[c].putDone /\ calls[d].putDone
        /\ CacheRequest(calls[c]) = CacheRequest(calls[d])
        /\ calls[c].held = calls[d].response
        /\ cache[CacheRequest(calls[c])] = calls[c].response

\* the caching callback of the call is past the point of the lookup
PastSnapshot(call) ==
    call.cacheable /\ call.pc \in {"put", "cacheDidUpdate", "done"}

\* C21: fetchAndCache looks up oldResponse (a cache match before the put)
\* exactly when a cacheDidUpdate plugin is registered and the response is
\* not opaque; otherwise it makes no cache match, and the cacheDidUpdate
\* callbacks, if any, get no oldResponse.
C21_SnapshotIffObservedAndNotOpaque ==
    \A c \in CallIds :
        LET call == calls[c]
            looked == Step("match", "end") \in Range(call.steps) IN
        /\ PastSnapshot(call) =>
              (looked <=> (/\ InRegistrationOrder("cacheDidUpdate") # <<>>
                           /\ call.response.type # "opaque"))
        /\ (call.response.type = "opaque"
              \/ InRegistrationOrder("cacheDidUpdate") = <<>>) =>
              /\ \A i \in 1..Len(call.steps) : call.steps[i].step # "match"
              /\ call.pc # "match"
              /\ call.oldResponse = NoResponse
              /\ \A i \in 1..Len(call.cduSeen) :
                    call.cduSeen[i].oldResponse = NoResponse

C21_Witness ==
    \E c, d \in CallIds :
        /\ calls[c].pc = "done" /\ calls[c].response.type = "opaque"
        /\ calls[c].putDone /\ Len(calls[c].cduSeen) = 2
        /\ \A i \in 1..Len(calls[c].steps) : calls[c].steps[i].step # "match"
        /\ calls[d].pc = "done" /\ calls[d].response.type = "basic"
        /\ Step("match", "end") \in Range(calls[d].steps)
        /\ Len(calls[d].cduSeen) = 2

\* an option that was provided and is not a number
NotANumber(value) == value # Undefined /\ value.type # "number"

\* C15: constructing the expiration Plugin fails with
\* max-entries-or-age-required when neither option is provided, with
\* max-entries-must-be-number when the maxEntries provided is not a number,
\* with max-age-seconds-must-be-number when the maxAgeSeconds provided is not
\* a number (with one of the two when both are not numbers), and succeeds
\* in every other case.
C15_PluginConstruction ==
    LET maxEntries == plugin.options.maxEntries
        maxAgeSeconds == plugin.options.maxAgeSeconds IN
    plugin.state # "none" =>
        IF maxEntries = Undefined /\ maxAgeSeconds = Undefined
        THEN plugin.state = "failed"
             /\ plugin.err = "max-entries-or-age-required"
        ELSE IF NotANumber(maxEntries) /\ NotANumber(maxAgeSeconds)
        THEN plugin.state = "failed"
             /\ plugin.err \in {"max-entries-must-be-number",
                                "max-age-seconds-must-be-number"}
        ELSE IF NotANumber(maxEntries)
        THEN plugin.state = "failed"
             /\ plugin.err = "max-entries-must-be-number"
        ELSE IF NotANumber(maxAgeSeconds)
        THEN plugin.state = "failed"
             /\ plugin.err = "max-age-seconds-must-be-number"
        ELSE plugin.state = "constructed"

\* C25: getCache memoisation: once a getCache call on a wrapper has
\* resolved with a handle, every later getCache call on that wrapper returns
\* that same handle without calling caches.open again; the wrapper only ever
\* opens the cache named by its own cacheName, which never changes after
\* construction.
C25_State ==
    /\ \A g \in GetCacheIds :
          matches[g].pc = "done" =>
              \A k \in matches[g].after :
                  /\ matches[g].handle = matches[k].handle
                  /\ matches[g].opened = 0
    /\ \A g \in GetCacheIds :
          matches[g].pc = "open" \/ matches[g].opened > 0 =>
              matches[g].name = wrapper.cacheName

C25_Step == wrapper'.cacheName = wrapper.cacheName

C25_GetCacheMemoised == []C25_State /\ [][C25_Step]_vars

\* C27: fetchDidFail callbacks are observers whose errors are swallowed: when
\* the network rejects with E and a fetchDidFail callback throws, the
\* remaining fetchDidFail callbacks are still invoked and fetch still rejects
\* with the original network error E, not with the observer's error.
C27_FetchDidFailThrowSwallowed ==
    \A c \in CallIds :
        LET callbacks == Cbs("fetchDidFail") IN
        /\ calls[c].netErr # ""
        /\ \E i \in 1..Len(calls[c].fdfSeen) :
              FetchDidFailThrows(calls[c].fdfSeen[i].plugin)
        => /\ [i \in 1..Len(calls[c].fdfSeen) |->
                  calls[c].fdfSeen[i].plugin] = callbacks
           /\ calls[c].ret = "rejected"
           /\ calls[c].err = calls[c].netErr

\* fetchAndCache was called with a cacheKey different from request
KeySubstituted(call) ==
    call.pc # "idle" /\ call.cacheKey \notin {NoKey, call.request}

\* C28: cacheKey substitution: when fetchAndCache is called with a cacheKey
\* different from request, the network call uses request (as rewritten by
\* requestWillFetch) and never the cacheKey, and the response is stored under
\* cacheKey only: the cache entry for request, if any, is left unchanged.
C28_State ==
    \A c \in CallIds :
        LET list == Cbs("requestWillFetch") IN
        KeySubstituted(calls[c]) /\ calls[c].netSeen # <<>> =>
            calls[c].netSeen = <<Rewritten(list, Len(list), calls[c].request)>>

C28_Step ==
    \A c \in CallIds :
        KeySubstituted(calls[c]) =>
            IF ~calls[c].putDone /\ calls'[c].putDone
            THEN /\ cache'[calls[c].cacheKey] = calls[c].response
                 /\ \A k \in Urls \ {calls[c].cacheKey} : cache'[k] = cache[k]
            ELSE calls'[c] # calls[c] =>
                    cache'[calls[c].request] = cache[calls[c].request]

C28_CacheKeySubstitution == []C28_State /\ [][C28_Step]_vars

C28_Witness ==
    /\ calls[1].request = "a" /\ calls[1].cacheKey = NoKey
    /\ calls[1].putDone
    /\ calls[2].request = "a" /\ calls[2].cacheKey = "b"
    /\ calls[2].putDone
    /\ calls[2].netSeen = <<"a">>
    /\ cache["a"] = calls[1].response
    /\ cache["b"] = calls[2].response

\* the oldResponse lookup of the call has thrown
SnapshotThrew(call) ==
    /\ MatchThrows
    /\ call.pc = "done"
    /\ Step("match", "start") \in Range(call.steps)

\* C29: an error raised by a transform hook is never swallowed: if the
\* cacheWillMatch callback throws during match, match rejects with that
\* error; if the cacheWillUpdate callback throws during fetchAndCache,
\* fetchAndCache rejects with it; and an error raised by cacheWillMatch
\* during the oldResponse snapshot inside fetchAndCache reaches the caller of
\* fetchAndCache in both waitOnCache modes.
C29_TransformErrorsSurface ==
    /\ \A m \in MatchIds :
          MatchThrows /\ matches[m].op = "match" /\ matches[m].pc = "done" =>
              matches[m].err = TransformError
    /\ \A c \in CallIds :
          UpdateThrows /\ calls[c].response # NoResponse =>
              calls[c].ret = "rejected" /\ calls[c].err = TransformError
    /\ \A c \in CallIds :
          SnapshotThrew(calls[c]) =>
              calls[c].ret = "rejected" /\ calls[c].err = TransformError

\* C32: index key equals cache key: for every response stored by
\* fetchAndCache with the Expiration plugin registered, the timestamp record
\* written by cacheDidUpdate is keyed by the same URL as the key under which
\* the response was put into the cache, so a later eviction of that record
\* deletes exactly that cache entry (also when a cacheKey is supplied or the
\* response's url differs from the request's URL).
C32_IndexKeyIsCacheKey ==
    \A c \in CallIds :
        jobs[c].pc # "idle" => jobs[c].url = CacheRequest(calls[c])

\* the requestWillFetch callbacks of a call that have failed: the one that
\* returned no Promise, or the one whose promise has settled in a rejection
\* or with no Request
FailedRewrites(call) ==
    {i \in 1..Len(call.rwfSeen) :
        LET returns ==
                RequestWillFetchReturns(call.rwfSeen[i].plugin,
                                        call.rwfSeen[i].request) IN
        \/ returns = "not-a-promise"
        \/ /\ returns \in {"rejects", "not-a-request"}
           /\ ~(i = Len(call.rwfSeen) /\ call.pc = "requestWillFetch")}

\* C26: when a requestWillFetch callback rejects (or returns something that
\* is not a Promise, or resolves to something that is not a Request), fetch
\* aborts: the remaining requestWillFetch callbacks are not invoked, no
\* network call is made, and fetch rejects with that error.
C26_RequestWillFetchAborts ==
    \A c \in CallIds : \A i \in FailedRewrites(calls[c]) :
        LET seen == calls[c].rwfSeen
            returns == RequestWillFetchReturns(seen[i].plugin,
                                               seen[i].request) IN
        /\ Len(seen) = i
        /\ calls[c].netSeen = <<>>
        /\ calls[c].fdfSeen = <<>>
        /\ calls[c].pc = "done"
        /\ calls[c].ret = "rejected"
        /\ calls[c].err =
              IF returns = "rejects" THEN RewriteError ELSE AssertionError

C26_Witness ==
    /\ Cbs("requestWillFetch") = <<"rwx", "rwA">>
    /\ \A c \in 1..3 : calls[c].pc = "done" /\ Len(calls[c].rwfSeen) = 1
    /\ {calls[c].request : c \in 1..3} = Urls
    /\ \E c \in 1..3 : calls[c].err = RewriteError

(***************************************************************************)
(* Claims about the strategy handlers (SpecHandler).                       *)
(***************************************************************************)
MatchDone(m) == matches[m].op = "match" /\ matches[m].pc = "done"

NetworkFirst == handler.kind = "NetworkFirst"
NetworkCall == calls[handler.call]
TimerMatch == matches[handler.timerMatch]
FallbackMatch == matches[handler.fallbackMatch]

\* C16: a NetworkFirst handler resolves with the first defined response of
\* the network fetchAndCache and the timer's cache match; when the timer's
\* match finds nothing the handler stays pending and the network call goes
\* on; when the timer's match finds a cached response while the network is
\* still pending, the handler resolves with that cached response.
C16_NetworkFirstRace ==
    (NetworkFirst /\ ~ReactionPending) =>
        /\ handler.ret = "resolved" =>
              /\ handler.result # NoResponse
              /\ handler.source = "network" =>
                    /\ handler.result = NetworkCall.response
                    /\ handler.timer # "done"
                          \/ TimerMatch.result = NoResponse
              /\ handler.source = "timer" =>
                    /\ handler.result = TimerMatch.result
                    /\ (handler.netSeen /\ NetworkCall.ret = "resolved")
                          => handler.netLate
        /\ (/\ handler.timer = "done"
            /\ TimerMatch.cachedResponse = NoResponse
            /\ NetworkCall.ret = "pending") =>
              /\ handler.ret = "pending"
              /\ ENABLED (\/ FetchRejects(handler.call, "network-error")
                          \/ FetchResolves(handler.call, 200, "basic",
                                           NoDateHeader))
        /\ (handler.timer = "done"
              /\ TimerMatch.cachedResponse # NoResponse) =>
              /\ handler.ret = "resolved"
              /\ handler.source = "timer"
              /\ handler.result = TimerMatch.cachedResponse

C16_Witness ==
    /\ NetworkFirst /\ ~ReactionPending
    /\ handler.timer = "done"
    /\ handler.ret = "resolved" /\ handler.source = "timer"
    /\ handler.result = cache[handler.request]
    /\ handler.result # NoResponse
    /\ NetworkCall.pc = "fetch"

\* C17: when the network call of a NetworkFirst handler has rejected, the
\* handler resolves with the wrapper's cache match for the request if there
\* is one, and rejects with the network error if there is none.
C17_NetworkFirstFallback ==
    (NetworkFirst /\ ~ReactionPending /\ NetworkCall.ret = "rejected") =>
        CASE handler.fallback = "done" ->
                IF FallbackMatch.result # NoResponse
                THEN /\ handler.ret = "resolved"
                     /\ handler.result = FallbackMatch.result
                ELSE /\ handler.ret = "rejected"
                     /\ handler.err = NetworkCall.netErr
          [] handler.fallback = "started" ->
                /\ FallbackMatch.request = handler.request
                /\ handler.ret = "pending" \/ handler.source = "timer"
          [] OTHER ->
                /\ handler.ret = "resolved" /\ handler.source = "timer"
                /\ handler.result = TimerMatch.result

StaleWhileRevalidate == handler.kind = "StaleWhileRevalidate"
CacheMatch == matches[handler.cacheMatch]

\* C18: a StaleWhileRevalidate handler has started the cache match and a
\* fetchAndCache that does not wait on the cache together; it resolves with
\* the cached response when there is one, whatever the state of the network
\* call, and with the network response otherwise; the network call can go
\* on to its end in both cases, and a match called after it has finished
\* with a 2xx response, stored by a put that succeeded, gets that response.
C18_StaleWhileRevalidate ==
    (StaleWhileRevalidate /\ ~ReactionPending) =>
        /\ CacheMatch.pc # "idle" /\ CacheMatch.request = handler.request
        /\ NetworkCall.pc # "idle" /\ ~NetworkCall.waitOnCache
        /\ NetworkCall.request = handler.request
        /\ CacheMatch.pc # "done" => handler.ret = "pending"
        /\ (CacheMatch.pc = "done"
              /\ CacheMatch.cachedResponse # NoResponse) =>
              /\ handler.ret = "resolved"
              /\ handler.result = CacheMatch.cachedResponse
        /\ (CacheMatch.pc = "done"
              /\ CacheMatch.cachedResponse = NoResponse) =>
              CASE NetworkCall.ret = "resolved" ->
                      /\ handler.ret = "resolved"
                      /\ handler.result = NetworkCall.response
                [] NetworkCall.ret = "rejected" ->
                      /\ handler.ret = "rejected"
                      /\ handler.err = NetworkCall.err
                [] OTHER -> handler.ret = "pending"
        /\ NetworkCall.pc # "done" =>
              ENABLED (\/ FetchRejects(handler.call, "network-error")
                       \/ GetCacheResolves(handler.call)
                       \/ OldResponseResolves(handler.call)
                       \/ PutResolves(handler.call)
                       \/ CacheDidUpdateFanout(handler.call, clock))
        /\ \A m \in MatchIds :
              (/\ MatchDone(m) /\ handler.call \in matches[m].after
               /\ Is2xx(NetworkCall.response)
               /\ ~NetworkCall.putFailed) =>
                  matches[m].result = NetworkCall.response

C18_Witness ==
    /\ StaleWhileRevalidate /\ ~ReactionPending
    /\ handler.ret = "resolved" /\ handler.source = "cache"
    /\ \E m \in MatchIds :
          /\ MatchDone(m) /\ handler.call \in matches[m].after
          /\ matches[m].result = NetworkCall.response
          /\ matches[m].result # handler.result

(***************************************************************************)
(* Claims about match and freshness (SpecMatch).                           *)
(***************************************************************************)
\* the Date header of the response is a date older than maxAgeSeconds at now
DateOlderThanMaxAge(response, now) ==
    /\ plugin.maxAgeSeconds # 0
    /\ response.date.kind = "date"
    /\ response.date.time + plugin.maxAgeSeconds * MsPerSecond < now

\* C12: with the expiration Plugin registered, match returns none when the
\* cache holds a response whose Date header is older than maxAgeSeconds, the
\* cached response when it is fresh, and none on a miss; with the user
\* plugin mat it returns none for a cached response that is not 2xx and the
\* cached response otherwise; with no cacheWillMatch plugin it returns the
\* raw cache result.
C12_MatchReturnsTransformOfRaw ==
    \A m \in MatchIds :
        LET raw == matches[m].cachedResponse
            result == matches[m].result
            transform == Cbs("cacheWillMatch") IN
        MatchDone(m) =>
            IF raw = NoResponse THEN result = NoResponse
            ELSE IF transform = <<"exp">>
            THEN result = IF DateOlderThanMaxAge(raw, matches[m].now)
                          THEN NoResponse ELSE raw
            ELSE IF transform = <<"mat">>
            THEN result = IF Is2xx(raw) THEN raw ELSE NoResponse
            ELSE result = raw

C12_Witness ==
    \E m, k \in MatchIds :
        /\ Cbs("cacheWillMatch") = <<"exp">>
        /\ MatchDone(m) /\ MatchDone(k)
        /\ matches[m].cachedResponse # NoResponse
        /\ DateOlderThanMaxAge(matches[m].cachedResponse, matches[m].now)
        /\ matches[m].result = NoResponse
        /\ matches[k].cachedResponse # NoResponse
        /\ matches[k].result = matches[k].cachedResponse
        /\ matches[k].result.date.kind = "date"

FreshDone(m) == matches[m].op = "isResponseFresh" /\ matches[m].pc = "done"

\* C13: isResponseFresh says fresh for a response with no Date header, with
\* an unparseable Date header, or when the plugin has no maxAgeSeconds;
\* otherwise it says fresh iff parsedDate + maxAgeSeconds * 1000 >= now.
C13_IsResponseFresh ==
    \A m \in MatchIds :
        LET response == matches[m].cachedResponse IN
        (FreshDone(m) /\ response # NoResponse) =>
            IF \/ response.date.kind \in {"absent", "invalid"}
               \/ plugin.maxAgeSeconds = 0
            THEN matches[m].fresh
            ELSE matches[m].fresh <=>
                 (response.date.time + plugin.maxAgeSeconds * MsPerSecond
                     >= matches[m].now)

C13_Witness ==
    \E m, k \in MatchIds :
        /\ FreshDone(m) /\ FreshDone(k)
        /\ matches[m].cachedResponse = matches[k].cachedResponse
        /\ matches[m].cachedResponse.date.kind = "date"
        /\ plugin.maxAgeSeconds # 0
        /\ matches[m].now = matches[m].cachedResponse.date.time
                               + plugin.maxAgeSeconds * MsPerSecond
        /\ matches[k].now = matches[m].now + 1
        /\ matches[m].fresh /\ ~matches[k].fresh

\* a step of a read: of a RequestWrapper.match call, or of the oldResponse
\* lookup that fetchAndCache makes through this.match
ReadStep ==
    \/ matches' # matches
    \/ \E c \in CallIds : calls[c].pc = "match" /\ calls'[c] # calls[c]

\* C30: least-recently-stored, not last-read: RequestWrapper.match and the
\* Expiration plugin's cacheWillMatch/isResponseFresh leave both the cache
\* and the timestamp index unchanged: a read never refreshes an entry's
\* timestamp, and a stale response that is mapped to none is not deleted from
\* the cache or the index by the read.
C30_ReadsLeaveCacheAndIndex ==
    [][ReadStep => cache' = cache /\ idb' = idb]_vars

C30_Witness ==
    \E m \in MatchIds :
        /\ matches[m].op = "match" /\ matches[m].pc = "done"
        /\ matches[m].cachedResponse # NoResponse
        /\ matches[m].result = NoResponse
        /\ cache[matches[m].request] = matches[m].cachedResponse
        /\ idb[matches[m].request] # NoRecord
        /\ idb[matches[m].request] < matches[m].now
        /\ Active = {}

=============================================================================
